---- MODULE Spec2Model ----
(***************************************************************************)
(* The histogram aggregation engine of perf (util/hist.c): a table         *)
(* ("hists") that owns two insertion buffers, a collapsed index and an     *)
(* output index over heap-allocated entries (struct hist_entry).           *)
(*                                                                         *)
(* An rb-tree is represented by its in-order traversal, a sequence of      *)
(* entry handles; a handle is an index into heap.  free() adds the handle  *)
(* to freed and leaves the bytes in heap, so that a reference that          *)
(* survives the free is visible as a handle of an index that is in freed.  *)
(***************************************************************************)
EXTENDS Integers, Sequences, FiniteSets, Bags, TLC

VARIABLES
    heap,                   \* handle -> struct hist_entry
    freed,                  \* handles passed to hist_entry__free
    entries_in_array,       \* hists->entries_in_array[2]
    entries_in,             \* hists->entries_in: which of the two is current
    entries_collapsed,      \* hists->entries_collapsed
    entries,                \* hists->entries, the output index
    stats,                  \* hists->stats (the period / sample totals)
    nr_entries,             \* hists->nr_entries
    nr_non_filtered_entries,\* hists->nr_non_filtered_entries
    dso_filter,             \* hists->dso_filter (NULL is 0)
    thread_filter,          \* hists->thread_filter (NULL is 0)
    symbol_filter_str,      \* hists->symbol_filter_str
    sort__need_collapse,    \* the global set when a column has a collapse function
    session_done,           \* the flag session_done() reads
    crashed,                \* the process faulted on a freed entry
    inserted,               \* history: the bag of samples whose insert returned an entry
    last_op,                \* history: the operation that produced this state
    phase,                  \* history: position in the run insert* ; collapse ; resort
    prod,                   \* live mode: the producer thread inside add_hist_entry
    cons,                   \* live mode: the consumer thread inside hists__collapse_resort
    d64,                    \* the 64-bit decay computation of SpecDecay
    other,                  \* the other table of a match / link: its index and the stage
    pairs,                  \* hist_entry.pairs: the links <<entry, its pair>>
    hpp,                    \* the column lists hpp_list__parse builds, and its result
    col_len,                \* hists.col_len: the width of each column
    c2c,                    \* perf c2c: the entries compared, the cacheline table
    top,                    \* perf top: the symbol counts, the active list, the two threads
    lck,                    \* perf lock: the lock_stat and lock_seq_stat of one lock
    min_callchain_hits      \* hists__output_resort: the threshold of the last pass

vars == <<heap, freed, entries_in_array, entries_in, entries_collapsed, entries,
          stats, nr_entries, nr_non_filtered_entries, dso_filter, thread_filter,
          symbol_filter_str, sort__need_collapse, session_done, crashed,
          inserted, last_op, phase, prod, cons, d64, other, pairs, hpp, col_len,
          c2c, top, lck, min_callchain_hits>>

tableVars == <<heap, freed, entries_in_array, entries_in, entries_collapsed, entries,
               stats, nr_entries, nr_non_filtered_entries, dso_filter, thread_filter,
               symbol_filter_str, sort__need_collapse, session_done, crashed,
               inserted, last_op, phase>>

liveVars == <<prod, cons>>

linkVars == <<other, pairs>>

colVars == <<hpp, col_len>>

toolVars == <<c2c, top, lck>>

(***************************************************************************)
(* Bounds of the model.                                                    *)
(***************************************************************************)
MaxSamples == 3

MaxTableSamples == 2

NULL == 0

\* a char pointer is the empty sequence (NULL) or holds the string it points to
NoStr == <<>>

(***************************************************************************)
(* Sequence helpers.                                                       *)
(***************************************************************************)
Range(s) == {s[i] : i \in 1..Len(s)}

InsertAt(s, pos, x) == SubSeq(s, 1, pos) \o <<x>> \o SubSeq(s, pos + 1, Len(s))

RemoveAt(s, pos) == SubSeq(s, 1, pos - 1) \o SubSeq(s, pos + 1, Len(s))

Remove(s, x) == SelectSeq(s, LAMBDA y : y # x)

\* The sum of one he_stat field over the entries S of heap image hp.
RECURSIVE StatSum(_, _, _)
StatSum(hp, S, f) ==
    IF S = {} THEN 0
    ELSE LET x == CHOOSE y \in S : TRUE IN hp[x].stat[f] + StatSum(hp, S \ {x}, f)

(***************************************************************************)
(* struct he_stat and the operations on it.                                *)
(***************************************************************************)
StatFields == {"period", "weight", "nr_events", "period_sys", "period_us",
               "period_guest_sys", "period_guest_us"}

ZeroStat == [f \in StatFields |-> 0]

he_stat__add_cpumode_period_swapped(he_stat, cpumode, period) ==
    CASE cpumode = "KERNEL"       -> [he_stat EXCEPT !.period_us = @ + period]
      [] cpumode = "USER"         -> [he_stat EXCEPT !.period_sys = @ + period]
      [] cpumode = "GUEST_KERNEL" -> [he_stat EXCEPT !.period_guest_sys = @ + period]
      [] cpumode = "GUEST_USER"   -> [he_stat EXCEPT !.period_guest_us = @ + period]
      [] OTHER                    -> he_stat

he_stat__add_cpumode_period(he_stat, cpumode, period) ==
    CASE cpumode = "KERNEL"       -> [he_stat EXCEPT !.period_sys = @ + period]
      [] cpumode = "USER"         -> [he_stat EXCEPT !.period_us = @ + period]
      [] cpumode = "GUEST_KERNEL" -> [he_stat EXCEPT !.period_guest_sys = @ + period]
      [] cpumode = "GUEST_USER"   -> [he_stat EXCEPT !.period_guest_us = @ + period]
      [] OTHER                    -> he_stat

he_stat__add_period_dropped(he_stat, period, weight) ==
    [he_stat EXCEPT !.weight = @ + weight, !.nr_events = @ + 1]

he_stat__add_period(he_stat, period, weight) ==
    [he_stat EXCEPT !.period = @ + period, !.weight = @ + weight, !.nr_events = @ + 1]

he_stat__add_stat_noweight(dest, src) ==
    [f \in StatFields |-> IF f = "weight" THEN dest[f] ELSE dest[f] + src[f]]

he_stat__add_stat(dest, src) == [f \in StatFields |-> dest[f] + src[f]]

(***************************************************************************)
(* u64 arithmetic of he_stat__decay.  A u64 is four 16-bit limbs, least    *)
(* significant first, so that (period * 7) / 8 is computed at its real     *)
(* width: the carry out of the top limb is dropped, as the C multiply      *)
(* drops it.                                                               *)
(***************************************************************************)
LimbBase == 2^16

U64Limbs == 1..4

ToU64(n) == [i \in U64Limbs |-> IF i = 1 THEN n % LimbBase
                                ELSE IF i = 2 THEN n \div LimbBase ELSE 0]

FromU64(x) == x[1] + LimbBase * x[2]

\* carry into limb i of x * 7
RECURSIVE Mul7Carry(_, _)
Mul7Carry(x, i) ==
    IF i = 1 THEN 0 ELSE (x[i - 1] * 7 + Mul7Carry(x, i - 1)) \div LimbBase

\* x * 7 on n limbs (n = 4: the u64 product, truncated)
Mul7(x, n) == [i \in 1..n |-> ((IF i \in DOMAIN x THEN x[i] ELSE 0) * 7
                                + Mul7Carry([j \in 1..n |-> IF j \in DOMAIN x THEN x[j] ELSE 0], i))
                               % LimbBase]

\* x / 8 on the limbs of x
Div8(x) == [i \in DOMAIN x |-> (x[i] \div 8)
                               + (IF i + 1 \in DOMAIN x THEN (x[i + 1] % 8) * (LimbBase \div 8) ELSE 0)]

\* (x * 7) / 8 in u64
U64_decay(x) == Div8(Mul7(x, 4))

\* floor(x * 7 / 8) in unbounded arithmetic: five limbs hold the product
Exact_decay(x) == Div8(Mul7(x, 5))

he_stat__decay(he_stat) ==
    [he_stat EXCEPT !.period = FromU64(U64_decay(ToU64(@))),
                    !.nr_events = FromU64(U64_decay(ToU64(@)))]

(***************************************************************************)
(* struct hist_entry.  A sample is the resolved addr_location and the      *)
(* period / weight that __hists__add_entry receives.                       *)
(***************************************************************************)
\* thread -> comm: threads 1 and 2 run the same command
thread__comm(thread) == IF thread \in {1, 2} THEN 1 ELSE 2

symbol_conf_exclude_other == FALSE

symbol__parent_filter(parent) ==
    IF symbol_conf_exclude_other /\ parent = NULL THEN {"PARENT"} ELSE {}

\* the on-stack struct hist_entry that __hists__add_entry fills in
hists__add_entry_template(al) ==
    [thread   |-> al.thread,
     sym      |-> al.sym,
     map      |-> al.map,
     level    |-> al.level,
     parent   |-> al.parent,
     filtered |-> symbol__parent_filter(al.parent) \cup al.filtered,
     used     |-> FALSE,
     dummy    |-> FALSE,
     stat     |-> [ZeroStat EXCEPT !.nr_events = 1, !.period = al.period,
                                   !.weight = al.weight]]

\* hist_entry__new: the copy of the template
hist_entry__new(template) == template

(***************************************************************************)
(* The column list (perf_hpp__for_each_sort_list) and the three            *)
(* comparators folded over it.  Each column has a key comparator (cmp), a  *)
(* collapse comparator and a display comparator (sort); a comparator      *)
(* returns right - left.  The "overhead" column compares equal as a key    *)
(* and orders the display by period; "comm" compares thread ids as a key   *)
(* and, when the configuration asks for a collapse, command names as the   *)
(* collapse key; without one a column's collapse comparator is its cmp.    *)
(* Its display comparator compares command names.                          *)
(***************************************************************************)
SortList == <<"overhead", "comm", "sym">>

perf_hpp__should_skip(fmt) == FALSE

fmt_cmp(fmt, left, right) ==
    CASE fmt = "overhead" -> 0
      [] fmt = "comm"     -> right.thread - left.thread
      [] fmt = "sym"      -> right.sym - left.sym

fmt_collapse(fmt, left, right) ==
    CASE fmt = "overhead" -> 0
      [] fmt = "comm"     -> IF sort__need_collapse
                             THEN thread__comm(right.thread) - thread__comm(left.thread)
                             ELSE right.thread - left.thread
      [] fmt = "sym"      -> right.sym - left.sym

fmt_sort(fmt, a, b) ==
    CASE fmt = "overhead" -> a.stat.period - b.stat.period
      [] fmt = "comm"     -> thread__comm(b.thread) - thread__comm(a.thread)
      [] fmt = "sym"      -> b.sym - a.sym

FoldList_last(kind, i, left, right) ==
    LET col(j) == CASE kind = "cmp"      -> fmt_cmp(SortList[j], left, right)
                    [] kind = "collapse" -> fmt_collapse(SortList[j], left, right)
                    [] kind = "sort"     -> fmt_sort(SortList[j], left, right)
        nz == {j \in i..Len(SortList) : col(j) # 0}
    IN IF nz = {} THEN 0 ELSE col(CHOOSE j \in nz : \A k \in nz : k <= j)

\* the loop of hist_entry__cmp / __collapse / __sort from column i on
RECURSIVE FoldList(_, _, _, _)
FoldList(kind, i, left, right) ==
    IF i > Len(SortList) THEN 0
    ELSE IF perf_hpp__should_skip(SortList[i]) THEN FoldList(kind, i + 1, left, right)
    ELSE LET cmp == CASE kind = "cmp"      -> fmt_cmp(SortList[i], left, right)
                      [] kind = "collapse" -> fmt_collapse(SortList[i], left, right)
                      [] kind = "sort"     -> fmt_sort(SortList[i], left, right)
         IN IF cmp # 0 THEN cmp ELSE FoldList(kind, i + 1, left, right)

hist_entry__cmp(left, right) == FoldList("cmp", 1, left, right)

hist_entry__collapse(left, right) == FoldList("collapse", 1, left, right)

hist_entry__sort(a, b) == FoldList("sort", 1, a, b)

(***************************************************************************)
(* The walks over an rb-tree, on its in-order sequence.                    *)
(***************************************************************************)
\* add_hist_entry's walk: the node that compares equal, or NULL
FindIn(hp, root, entry) ==
    LET hit == {i \in 1..Len(root) : hist_entry__cmp(hp[root[i]], entry) = 0}
    IN IF hit = {} THEN NULL ELSE root[CHOOSE i \in hit : \A j \in hit : i <= j]

\* ... and the place it links a new node at: cmp < 0 goes left, else right
LinkPos(hp, root, entry) ==
    Cardinality({i \in 1..Len(root) : hist_entry__cmp(hp[root[i]], entry) > 0})

\* the same walk of hists__collapse_insert_entry, with the collapse comparator
FindCollapsed(hp, root, he) ==
    LET hit == {i \in 1..Len(root) : hist_entry__collapse(hp[root[i]], hp[he]) = 0}
    IN IF hit = {} THEN NULL ELSE root[CHOOSE i \in hit : \A j \in hit : i <= j]

CollapsePos(hp, root, he) ==
    Cardinality({i \in 1..Len(root) : hist_entry__collapse(hp[root[i]], hp[he]) > 0})

OutputPos_tiesfirst(hp, root, he) ==
    Cardinality({i \in 1..Len(root) : hist_entry__sort(hp[he], hp[root[i]]) < 0})

OutputPos_ascending(hp, root, he) ==
    Cardinality({i \in 1..Len(root) : hist_entry__sort(hp[he], hp[root[i]]) > 0})

\* __hists__insert_output_entry: sort(he, iter) > 0 goes left, else right
OutputPos(hp, root, he) ==
    Cardinality({i \in 1..Len(root) : hist_entry__sort(hp[he], hp[root[i]]) <= 0})

(***************************************************************************)
(* The table after hists__init, and the history variables.                 *)
(***************************************************************************)
Idle == [pc |-> "idle"]

InitHists ==
    /\ heap = <<>>
    /\ freed = {}
    /\ entries_in_array = <<<<>>, <<>>>>
    /\ entries_in = 1
    /\ entries_collapsed = <<>>
    /\ entries = <<>>
    /\ stats = [total_period |-> 0, total_non_filtered_period |-> 0,
                nr_non_filtered_samples |-> 0]
    /\ nr_entries = 0
    /\ nr_non_filtered_entries = 0
    /\ dso_filter = NULL
    /\ thread_filter = NULL
    /\ symbol_filter_str = NoStr
    /\ session_done = FALSE
    /\ crashed = FALSE
    /\ inserted = EmptyBag
    /\ prod = Idle
    /\ cons = Idle
    /\ other = [root |-> <<>>, stage |-> "none"]
    /\ pairs = {}
    /\ hpp = Idle
    /\ col_len = [SYMBOL |-> 0, COMM |-> 0, THREAD |-> 0, DSO |-> 0]
    /\ min_callchain_hits = 0

\* ... with the tools at rest
InitTable == InitHists /\ c2c = Idle /\ top = Idle /\ lck = Idle

\* the history is kept when the initial state asks for it
Op(op) == IF last_op = "off" THEN "off" ELSE op

\* the run so far is insert* (phase "ins"), then one completed collapse
\* ("col"), then one resort ("res"); anything else is "any"
PhaseAfter(op) ==
    CASE op = "insert" /\ phase = "ins"   -> "ins"
      [] op = "collapse" /\ phase = "ins" -> "col"
      [] op = "resort" /\ phase = "col"   -> "res"
      [] OTHER                            -> "any"

\* fewer than max samples were inserted so far
Room(max) == BagCardinality(inserted) < max

\* the sum of one field over the samples S, each as often as it is in bag B
RECURSIVE SampleSum(_, _, _)
SampleSum(B, S, f) ==
    IF S = {} THEN 0
    ELSE LET x == CHOOSE y \in S : TRUE
         IN CopiesIn(x, B) * x[f] + SampleSum(B, S \ {x}, f)

(***************************************************************************)
(* __hists__add_entry / add_hist_entry, run to completion.                 *)
(***************************************************************************)
\* the statistics of the entry the sample was merged into: the !cmp branch
\* and the out: label
MergedStat(he_stat, al) ==
    he_stat__add_cpumode_period(he_stat__add_period(he_stat, al.period, al.weight),
                                al.cpumode, al.period)

\* the entry linked for a new key: hist_entry__new and the out: label
NewEntry(entry, al) ==
    [hist_entry__new(entry) EXCEPT
        !.stat = he_stat__add_cpumode_period(@, al.cpumode, al.period)]

add_hist_entry(al) ==
    LET entry == hists__add_entry_template(al)
        root  == entries_in_array[entries_in]
        he    == FindIn(heap, root, entry)
    IN IF he # NULL
       THEN /\ heap' = [heap EXCEPT ![he].stat = MergedStat(@, al),
                                    ![he].map = entry.map]
            /\ UNCHANGED entries_in_array
       ELSE /\ heap' = Append(heap, NewEntry(entry, al))
            /\ entries_in_array' =
                   [entries_in_array EXCEPT
                       ![entries_in] = InsertAt(root, LinkPos(heap, root, entry),
                                                Len(heap) + 1)]

Insert(al) ==
    /\ ~crashed
    /\ add_hist_entry(al)
    /\ inserted' = inserted (+) SetToBag({al})
    /\ last_op' = Op("insert")
    /\ phase' = PhaseAfter("insert")
    /\ UNCHANGED <<freed, entries_in, entries_collapsed, entries, stats, nr_entries,
                   nr_non_filtered_entries, dso_filter, thread_filter,
                   symbol_filter_str, sort__need_collapse, session_done, crashed,
                   liveVars, d64, linkVars, colVars,
                   toolVars, min_callchain_hits>>

InsertNoMem_linked(al) ==
    /\ ~crashed
    /\ FindIn(heap, entries_in_array[entries_in], hists__add_entry_template(al)) = NULL
    /\ add_hist_entry(al)
    /\ last_op' = Op("insert_enomem")
    /\ phase' = PhaseAfter("insert")
    /\ UNCHANGED <<freed, entries_in, entries_collapsed,
                   entries, stats, nr_entries, nr_non_filtered_entries, dso_filter,
                   thread_filter, symbol_filter_str, sort__need_collapse,
                   session_done, crashed, inserted, liveVars, d64, linkVars, colVars,
                   toolVars, min_callchain_hits>>

\* hist_entry__new returns NULL: add_hist_entry returns NULL before it links
InsertNoMem(al) ==
    /\ ~crashed
    /\ FindIn(heap, entries_in_array[entries_in], hists__add_entry_template(al)) = NULL
    /\ last_op' = Op("insert_enomem")
    /\ phase' = PhaseAfter("insert")
    /\ UNCHANGED <<heap, freed, entries_in_array, entries_in, entries_collapsed,
                   entries, stats, nr_entries, nr_non_filtered_entries, dso_filter,
                   thread_filter, symbol_filter_str, sort__need_collapse,
                   session_done, crashed, inserted, liveVars, d64, linkVars, colVars,
                   toolVars, min_callchain_hits>>

(***************************************************************************)
(* Inserts alone: samples that differ in every statistic.                  *)
(***************************************************************************)
InsertSamples ==
    {[thread |-> k[1], sym |-> k[2], map |-> 1, level |-> ".", parent |-> NULL,
      filtered |-> {}, period |-> p, weight |-> 3 * (2 - p), cpumode |-> c] :
        k \in {<<1, 1>>, <<1, 2>>, <<2, 1>>}, p \in {1, 2},
        c \in {"KERNEL", "USER", "GUEST_KERNEL", "GUEST_USER", "UNKNOWN"}}

InitInsert ==
    InitTable /\ d64 = Idle /\ sort__need_collapse = FALSE /\ last_op = "init" /\ phase = "ins"

NextInsert ==
    \E al \in InsertSamples : Room(MaxSamples) /\ (Insert(al) \/ InsertNoMem(al))

SpecInsert == InitInsert /\ [][NextInsert]_vars

\* the entries of the current insertion buffer
CurrentIn == Range(entries_in_array[entries_in])

\* C1: with inserts only, the periods of the entries of the insertion index
\* add up to the periods of the inserted samples.
Conservation ==
    StatSum(heap, CurrentIn, "period")
        = SampleSum(inserted, BagToSet(inserted), "period")

ConservationWitness ==
    /\ BagCardinality(inserted) = 3
    /\ Cardinality(CurrentIn) = 2
    /\ StatSum(heap, CurrentIn, "period") = 5

RECURSIVE SampleCount(_, _)
SampleCount(B, S) ==
    IF S = {} THEN 0
    ELSE LET x == CHOOSE y \in S : TRUE IN CopiesIn(x, B) + SampleCount(B, S \ {x})

\* the inserted samples whose key compares equal to the entry's
SamplesOfKey(he) ==
    {al \in BagToSet(inserted) : hist_entry__cmp(he, hists__add_entry_template(al)) = 0}

WithMode(S, cpumode) == {al \in S : al.cpumode = cpumode}

\* the field-wise sum of the contributions of the samples S
ContributionSum(S) ==
    [period           |-> SampleSum(inserted, S, "period"),
     weight           |-> SampleSum(inserted, S, "weight"),
     nr_events        |-> SampleCount(inserted, S),
     period_sys       |-> SampleSum(inserted, WithMode(S, "KERNEL"), "period"),
     period_us        |-> SampleSum(inserted, WithMode(S, "USER"), "period"),
     period_guest_sys |-> SampleSum(inserted, WithMode(S, "GUEST_KERNEL"), "period"),
     period_guest_us  |-> SampleSum(inserted, WithMode(S, "GUEST_USER"), "period")]

\* the in-order sequence is strictly ordered by the key comparator
KeySorted(hp, root) ==
    \A i, j \in 1..Len(root) : i < j => hist_entry__cmp(hp[root[i]], hp[root[j]]) > 0

\* C2: samples whose keys compare equal share one entry of the insertion index,
\* whose statistics are the field-wise sum of their contributions (nr_events
\* their number, each cpumode bucket the periods of the samples of that
\* cpumode); a sample with a new key gets a new entry, linked at its sorted
\* position.
MergeCorrectness ==
    LET root == entries_in_array[entries_in]
    IN /\ \A al \in BagToSet(inserted) :
              Cardinality({i \in 1..Len(root) :
                  hist_entry__cmp(heap[root[i]], hists__add_entry_template(al)) = 0}) = 1
       /\ \A h \in Range(root) :
              /\ SamplesOfKey(heap[h]) # {}
              /\ heap[h].stat = ContributionSum(SamplesOfKey(heap[h]))
       /\ KeySorted(heap, root)

\* two samples of one key and different cpumodes merged, a third key linked
\* in front of it
MergeCorrectnessWitness ==
    LET root == entries_in_array[entries_in]
    IN /\ Len(root) = 2
       /\ BagCardinality(inserted) = 3
       /\ heap[root[2]].stat.nr_events = 2
       /\ heap[root[2]].stat.period = 3
       /\ heap[root[2]].stat.weight = 3
       /\ heap[root[2]].stat.period_sys = 1
       /\ heap[root[2]].stat.period_guest_us = 2
       /\ root[1] > root[2]

(***************************************************************************)
(* The filter predicates.  A map stands for the dso it maps; a symbol's    *)
(* name is a sequence of characters, so that strstr is a substring search. *)
(***************************************************************************)
SymName(sym) == IF sym = 1 THEN <<"f", "o", "o">> ELSE <<"b", "a", "r">>

strstr(haystack, needle) ==
    \E i \in 1..(Len(haystack) + 1) :
        /\ i + Len(needle) - 1 <= Len(haystack)
        /\ SubSeq(haystack, i, i + Len(needle) - 1) = needle

FilterBits_inverted(he, dso, thread, str) ==
    (IF dso # NULL /\ he.map # NULL /\ he.map = dso THEN {"DSO"} ELSE {})
    \cup (IF thread # NULL /\ he.thread # thread THEN {"THREAD"} ELSE {})
    \cup (IF str # NoStr /\ (he.sym = NULL \/ ~strstr(SymName(he.sym), str[1]))
          THEN {"SYMBOL"} ELSE {})

\* hists__filter_entry_by_dso / _thread / _symbol: the bit each one sets
FilterBits(he, dso, thread, str) ==
    (IF dso # NULL /\ (he.map = NULL \/ he.map # dso) THEN {"DSO"} ELSE {})
    \cup (IF thread # NULL /\ he.thread # thread THEN {"THREAD"} ELSE {})
    \cup (IF str # NoStr /\ (he.sym = NULL \/ ~strstr(SymName(he.sym), str[1]))
          THEN {"SYMBOL"} ELSE {})

hists__apply_filters(he) ==
    [he EXCEPT !.filtered = @ \cup FilterBits(he, dso_filter, thread_filter,
                                              symbol_filter_str)]

(***************************************************************************)
(* hists__collapse_resort.                                                 *)
(***************************************************************************)
\* hists__get_rotate_entries_in: the buffer that becomes current
Rotated(cur) == IF cur + 1 > 2 THEN 1 ELSE cur + 1

\* hists__collapse_insert_entry of entry n into the collapsed index of
\* st = [heap, freed, collapsed]
hists__collapse_insert_entry(st, n) ==
    LET iter == FindCollapsed(st.heap, st.collapsed, n)
    IN IF iter # NULL
       THEN [st EXCEPT !.heap[iter].stat = he_stat__add_stat(@, st.heap[n].stat),
                       !.freed = @ \cup {n}]
       ELSE [st EXCEPT !.collapsed = InsertAt(@, CollapsePos(st.heap, @, n), n),
                       !.heap[n] = hists__apply_filters(@)]

\* the loop of hists__collapse_resort over the entries todo, first to last
RECURSIVE CollapseLoop(_, _)
CollapseLoop(st, todo) ==
    IF todo = <<>> THEN st
    ELSE CollapseLoop(hists__collapse_insert_entry(st, Head(todo)), Tail(todo))

CollapsePass_erasefirst(k) ==
    LET root == entries_in_array[entries_in]
        st   == CollapseLoop([heap |-> heap, freed |-> freed,
                              collapsed |-> entries_collapsed], SubSeq(root, 1, k))
    IN /\ entries_in' = Rotated(entries_in)
       /\ entries_in_array' =
              [entries_in_array EXCEPT ![entries_in] = SubSeq(root, k + 2, Len(root))]
       /\ heap' = st.heap
       /\ freed' = st.freed
       /\ entries_collapsed' = st.collapsed

\* The pass moves the first k entries of the rotated-out buffer; it moves
\* them all unless session_done() turns true on the way.
CollapsePass(k) ==
    LET root == entries_in_array[entries_in]
        st   == CollapseLoop([heap |-> heap, freed |-> freed,
                              collapsed |-> entries_collapsed], SubSeq(root, 1, k))
    IN /\ entries_in' = Rotated(entries_in)
       /\ entries_in_array' =
              [entries_in_array EXCEPT ![entries_in] = SubSeq(root, k + 1, Len(root))]
       /\ heap' = st.heap
       /\ freed' = st.freed
       /\ entries_collapsed' = st.collapsed

CollapseNop_rotating ==
    /\ ~crashed
    /\ ~sort__need_collapse
    /\ entries_in' = Rotated(entries_in)
    /\ last_op' = Op("collapse")
    /\ phase' = PhaseAfter("collapse")
    /\ UNCHANGED <<heap, freed, entries_in_array, entries_collapsed,
                   entries, stats, nr_entries, nr_non_filtered_entries, dso_filter,
                   thread_filter, symbol_filter_str, sort__need_collapse,
                   session_done, crashed, inserted, liveVars, d64, linkVars, colVars,
                   toolVars, min_callchain_hits>>

\* sort__need_collapse is not set: the function returns at once
CollapseNop ==
    /\ ~crashed
    /\ ~sort__need_collapse
    /\ last_op' = Op("collapse")
    /\ phase' = PhaseAfter("collapse")
    /\ UNCHANGED <<heap, freed, entries_in_array, entries_in, entries_collapsed,
                   entries, stats, nr_entries, nr_non_filtered_entries, dso_filter,
                   thread_filter, symbol_filter_str, sort__need_collapse,
                   session_done, crashed, inserted, liveVars, d64, linkVars, colVars,
                   toolVars, min_callchain_hits>>

Collapse_nobreak ==
    /\ ~crashed
    /\ sort__need_collapse
    /\ CollapsePass(Len(entries_in_array[entries_in]))
    /\ last_op' = Op("collapse")
    /\ phase' = PhaseAfter("collapse")
    /\ UNCHANGED <<entries, stats, nr_entries, nr_non_filtered_entries, dso_filter,
                   thread_filter, symbol_filter_str, sort__need_collapse,
                   session_done, crashed, inserted, liveVars, d64, linkVars, colVars,
                   toolVars, min_callchain_hits>>

\* the pass runs to the end of the rotated-out buffer
Collapse ==
    /\ ~crashed
    /\ sort__need_collapse
    /\ ~session_done \/ entries_in_array[entries_in] = <<>>
    /\ CollapsePass(Len(entries_in_array[entries_in]))
    /\ last_op' = Op("collapse")
    /\ phase' = PhaseAfter("collapse")
    /\ UNCHANGED <<entries, stats, nr_entries, nr_non_filtered_entries, dso_filter,
                   thread_filter, symbol_filter_str, sort__need_collapse,
                   session_done, crashed, inserted, liveVars, d64, linkVars, colVars,
                   toolVars, min_callchain_hits>>

\* session_done() is true before entry k + 1 is moved: the pass breaks there
CollapseAbandoned(k) ==
    /\ ~crashed
    /\ sort__need_collapse
    /\ k < Len(entries_in_array[entries_in])
    /\ session_done => k = 0
    /\ CollapsePass(k)
    /\ session_done' = TRUE
    /\ last_op' = Op("collapse_abandoned")
    /\ phase' = "any"
    /\ UNCHANGED <<entries, stats, nr_entries, nr_non_filtered_entries, dso_filter,
                   thread_filter, symbol_filter_str, sort__need_collapse,
                   crashed, inserted, liveVars, d64, linkVars, colVars,
                   toolVars, min_callchain_hits>>

\* the signal handler of the session raises the flag
SessionDone ==
    /\ ~crashed
    /\ ~session_done
    /\ session_done' = TRUE
    /\ last_op' = Op("session_done")
    /\ phase' = "any"
    /\ UNCHANGED <<heap, freed, entries_in_array, entries_in, entries_collapsed,
                   entries, stats, nr_entries, nr_non_filtered_entries, dso_filter,
                   thread_filter, symbol_filter_str, sort__need_collapse,
                   crashed, inserted, liveVars, d64, linkVars, colVars,
                   toolVars, min_callchain_hits>>

(***************************************************************************)
(* hists->col_len: the display width of the symbol, comm, thread and dso   *)
(* columns.  verbose is off, and the samples carry no parent, branch_info  *)
(* or mem_info: the other columns get widths that do not depend on the     *)
(* entry.                                                                  *)
(***************************************************************************)
\* BITS_PER_LONG / 4
unresolved_col_width == 16

\* thread__comm_str: "perf" for the comm of threads 1 and 2, else "swapper"
thread__comm_str(thread) ==
    IF thread__comm(thread) = 1 THEN <<"p", "e", "r", "f">>
    ELSE <<"s", "w", "a", "p", "p", "e", "r">>

thread__comm_len(thread) == Len(thread__comm_str(thread))

\* dso 1 is libc, the other one the kernel
dso__name_len(dso) ==
    IF dso = 1 THEN Len(<<"l", "i", "b", "c">>)
    ELSE Len(<<"[", "k", "e", "r", "n", "e", "l", "]">>)

hists__col_len(st, col) == st.col_len[col]

hists__set_col_len(st, col, len) == [st EXCEPT !.col_len[col] = len]

hists__new_col_len_always(st, col, len) ==
    [st |-> hists__set_col_len(st, col, len), ret |-> TRUE]

\* hists__new_col_len: the table after the call, and the value returned
hists__new_col_len(st, col, len) ==
    IF len > hists__col_len(st, col)
    THEN [st |-> hists__set_col_len(st, col, len), ret |-> TRUE]
    ELSE [st |-> st, ret |-> FALSE]

hists__reset_col_len(st) ==
    [st EXCEPT !.col_len = [col \in DOMAIN st.col_len |-> 0]]

\* symbol_conf.col_width_list_str, field_sep and dso_list are not set
hists__set_unres_dso_col_len(st, dso) ==
    IF hists__col_len(st, dso) < unresolved_col_width
    THEN hists__set_col_len(st, dso, unresolved_col_width)
    ELSE st

hists__calc_col_len(st, h) ==
    LET he == st.heap[h]
        s1 == IF he.sym # NULL
              THEN hists__new_col_len(st, "SYMBOL", Len(SymName(he.sym)) + 4).st
              ELSE hists__set_unres_dso_col_len(
                       hists__new_col_len(st, "SYMBOL",
                                          unresolved_col_width + 4 + 2).st, "DSO")
        len == thread__comm_len(he.thread)
        r2 == hists__new_col_len(s1, "COMM", len)
        s2 == IF r2.ret THEN hists__set_col_len(r2.st, "THREAD", len + 6) ELSE r2.st
    IN IF he.map # NULL
       THEN hists__new_col_len(s2, "DSO", dso__name_len(he.map)).st
       ELSE s2

(***************************************************************************)
(* hists__output_resort.                                                   *)
(***************************************************************************)
hists__inc_filter_stats(st, h) ==
    [st EXCEPT !.nr_non_filtered_entries = @ + 1,
               !.stats.total_non_filtered_period = @ + st.heap[h].stat.period]

hists__inc_stats_unfiltered(st, h) ==
    LET f == hists__inc_filter_stats(st, h)
    IN [f EXCEPT !.nr_entries = @ + 1,
                 !.stats.total_period = @ + st.heap[h].stat.period]

hists__inc_stats(st, h) ==
    LET f == IF st.heap[h].filtered = {} THEN hists__inc_filter_stats(st, h) ELSE st
    IN [f EXCEPT !.nr_entries = @ + 1,
                 !.stats.total_period = @ + st.heap[h].stat.period]

__hists__insert_output_entry(st, he) ==
    [st EXCEPT !.entries = InsertAt(@, OutputPos(st.heap, @, he), he)]

\* the loop of hists__output_resort over the entries todo, first to last
RECURSIVE ResortLoop(_, _)
ResortLoop(st, todo) ==
    IF todo = <<>> THEN st
    ELSE LET n == Head(todo)
             counted == hists__inc_stats(__hists__insert_output_entry(st, n), n)
         IN ResortLoop(IF st.heap[n].filtered = {}
                       THEN hists__calc_col_len(counted, n)
                       ELSE counted,
                       Tail(todo))

hists__reset_stats_keepfilter(st) ==
    [st EXCEPT !.nr_entries = 0, !.stats.total_period = 0]

\* hists__reset_stats on st
hists__reset_stats(st) ==
    [st EXCEPT !.nr_entries = 0, !.stats.total_period = 0,
               !.nr_non_filtered_entries = 0, !.stats.total_non_filtered_period = 0]

ResortSource ==
    IF sort__need_collapse THEN entries_collapsed ELSE entries_in_array[entries_in]

\* callchain_param.min_percent, in thousandths of the total
callchain_param_min_percent == 5

\* line 652: total_period * (min_percent / 100), truncated to u64, read
\* before hists__reset_stats
hists__output_resort_min_hits ==
    (stats.total_period * callchain_param_min_percent) \div 1000

hists__output_resort ==
    LET st == ResortLoop(hists__reset_col_len(hists__reset_stats(
                             [heap |-> heap, entries |-> <<>>,
                              stats |-> stats, nr_entries |-> nr_entries,
                              nr_non_filtered_entries |-> nr_non_filtered_entries,
                              col_len |-> col_len])),
                         ResortSource)
    IN /\ entries' = st.entries
       /\ col_len' = st.col_len
       /\ min_callchain_hits' = hists__output_resort_min_hits
       /\ stats' = st.stats
       /\ nr_entries' = st.nr_entries
       /\ nr_non_filtered_entries' = st.nr_non_filtered_entries

Resort ==
    /\ ~crashed
    /\ hists__output_resort
    /\ last_op' = Op("resort")
    /\ phase' = PhaseAfter("resort")
    /\ UNCHANGED <<heap, freed, entries_in_array, entries_in, entries_collapsed,
                   dso_filter, thread_filter, symbol_filter_str, sort__need_collapse,
                   session_done, crashed, inserted, liveVars, d64, linkVars, hpp,
                   toolVars>>

(***************************************************************************)
(* Batch mode: insert, collapse, resort.                                   *)
(***************************************************************************)
BatchSamples ==
    {[thread |-> th, sym |-> k[1], map |-> k[1], level |-> ".", parent |-> NULL,
      filtered |-> {}, period |-> k[2], weight |-> 1,
      cpumode |-> IF th = 1 THEN "USER" ELSE "KERNEL"] :
        th \in {1, 2}, k \in {<<1, 10>>, <<1, 5>>, <<2, 7>>}}

InitBatch ==
    InitTable /\ d64 = Idle /\ sort__need_collapse \in BOOLEAN /\ last_op = "init" /\ phase = "ins"

NextBatch ==
    \/ \E al \in BatchSamples : Room(MaxSamples) /\ Insert(al)
    \/ Collapse
    \/ CollapseNop
    \/ \E k \in 0..MaxSamples : CollapseAbandoned(k)
    \/ SessionDone
    \/ Resort

SpecBatch == InitBatch /\ [][NextBatch]_vars

\* C6: with a collapse comparator configured, a collapse pass that follows a
\* collapse pass with no insert in between leaves the collapsed index and the
\* statistics of its entries as the first pass left them.
CollapseIdempotent ==
    [][(/\ sort__need_collapse
        /\ last_op \in {"collapse", "collapse_abandoned"}
        /\ last_op' \in {"collapse", "collapse_abandoned"})
       => /\ entries_collapsed' = entries_collapsed
          /\ \A h \in Range(entries_collapsed) : heap'[h] = heap[h]]_vars

\* a second pass ran over a collapsed index that holds a merged entry
CollapseIdempotentWitness ==
    /\ sort__need_collapse
    /\ last_op = "collapse"
    /\ entries_in = 1
    /\ entries_in_array = <<<<>>, <<>>>>
    /\ Len(entries_collapsed) = 2
    /\ freed # {}
    /\ StatSum(heap, Range(entries_collapsed), "nr_events") = 3

\* C7: a collapse pass that runs to its end empties the rotated-out buffer,
\* leaves no two entries of the collapsed index equal under the collapse
\* comparator, and raises the sum of each statistic over the collapsed index
\* by its sum over the drained entries; a drained entry is linked into the
\* collapsed index or freed.
CollapseComplete ==
    [][(sort__need_collapse /\ last_op' = Op("collapse"))
       => LET drained == Range(entries_in_array[entries_in])
              col     == entries_collapsed'
          IN /\ entries_in_array'[entries_in] = <<>>
             /\ \A i, j \in 1..Len(col) :
                    i # j => hist_entry__collapse(heap'[col[i]], heap'[col[j]]) # 0
             /\ \A f \in StatFields :
                    StatSum(heap', Range(col), f)
                        = StatSum(heap, Range(entries_collapsed), f)
                          + StatSum(heap, drained, f)
             /\ \A n \in drained : (n \in Range(col)) # (n \in freed')]_vars

\* a pass has merged an entry of thread 2 into the entry of thread 1
CollapseCompleteWitness ==
    /\ sort__need_collapse
    /\ last_op = "collapse"
    /\ Len(entries_collapsed) = 1
    /\ freed # {}
    /\ heap[entries_collapsed[1]].stat.nr_events = 3
    /\ heap[entries_collapsed[1]].stat.period_sys = 5
    /\ heap[entries_collapsed[1]].stat.period_us = 15

\* the key the output index is built on
SameOutputKey(he, al) ==
    IF sort__need_collapse
    THEN hist_entry__collapse(he, hists__add_entry_template(al)) = 0
    ELSE hist_entry__cmp(he, hists__add_entry_template(al)) = 0

\* C8: after inserts, one collapse and one resort, the output index holds one
\* entry per distinct key, whose period is the sum of the periods of the
\* samples of that key, in descending order of period, and total_period is the
\* sum of the periods of all samples.
CollapseResortScenario ==
    phase = "res" =>
        /\ \A al \in BagToSet(inserted) :
               Cardinality({i \in 1..Len(entries) : SameOutputKey(heap[entries[i]], al)}) = 1
        /\ \A h \in Range(entries) :
               LET S == {al \in BagToSet(inserted) : SameOutputKey(heap[h], al)}
               IN S # {} /\ heap[h].stat.period = SampleSum(inserted, S, "period")
        /\ \A i, j \in 1..Len(entries) :
               i < j => heap[entries[i]].stat.period >= heap[entries[j]].stat.period
        /\ stats.total_period = SampleSum(inserted, BagToSet(inserted), "period")

\* foo:10, foo:5, bar:7 gives foo(15) before bar(7) and a total of 22
CollapseResortScenarioWitness ==
    /\ phase = "res"
    /\ BagCardinality(inserted) = 3
    /\ \E a, b, c \in BagToSet(inserted) :
           /\ a.sym = 1 /\ a.period = 10
           /\ b.sym = 1 /\ b.period = 5
           /\ c.sym = 2 /\ c.period = 7
    /\ Len(entries) = 2
    /\ heap[entries[1]].sym = 1 /\ heap[entries[1]].stat.period = 15
    /\ heap[entries[2]].sym = 2 /\ heap[entries[2]].stat.period = 7
    /\ stats.total_period = 22

(***************************************************************************)
(* hists__decay_entries.  The totals are u64: a total below zero stands    *)
(* for that value + 2^64, the value the subtraction wraps to.              *)
(***************************************************************************)
\* hists__decay_entry on entry he of st; the result is in st.gone
hists__decay_entry(st, he) ==
    LET prev_period == st.heap[he].stat.period
        decayed     == he_stat__decay(st.heap[he].stat)
        diff        == prev_period - decayed.period
    IN IF prev_period = 0 THEN [st EXCEPT !.gone = TRUE]
       ELSE [st EXCEPT
                !.heap[he].stat = decayed,
                !.stats.total_period = @ - diff,
                !.stats.total_non_filtered_period =
                    IF st.heap[he].filtered = {} THEN @ - diff ELSE @,
                !.gone = (decayed.period = 0)]

DecayStep_unpinned(st, n, zap_user, zap_kernel) ==
    LET zapped == \/ zap_user /\ st.heap[n].level = "."
                  \/ zap_kernel /\ st.heap[n].level # "."
        d      == IF zapped THEN [st EXCEPT !.gone = TRUE] ELSE hists__decay_entry(st, n)
    IN IF d.gone
       THEN [d EXCEPT
                !.entries = Remove(@, n),
                !.collapsed = IF sort__need_collapse THEN Remove(@, n) ELSE @,
                !.nr_entries = @ - 1,
                !.nr_non_filtered_entries = IF d.heap[n].filtered = {} THEN @ - 1 ELSE @,
                !.freed = @ \cup {n}]
       ELSE d

\* the body of the loop of hists__decay_entries for entry n
DecayStep(st, n, zap_user, zap_kernel) ==
    LET zapped == \/ zap_user /\ st.heap[n].level = "."
                  \/ zap_kernel /\ st.heap[n].level # "."
        d      == IF zapped THEN [st EXCEPT !.gone = TRUE] ELSE hists__decay_entry(st, n)
    IN IF d.gone /\ ~d.heap[n].used
       THEN [d EXCEPT
                !.entries = Remove(@, n),
                !.collapsed = IF sort__need_collapse THEN Remove(@, n) ELSE @,
                !.nr_entries = @ - 1,
                !.nr_non_filtered_entries = IF d.heap[n].filtered = {} THEN @ - 1 ELSE @,
                !.freed = @ \cup {n}]
       ELSE d

RECURSIVE DecayLoop(_, _, _, _)
DecayLoop(st, todo, zap_user, zap_kernel) ==
    IF todo = <<>> THEN st
    ELSE DecayLoop(DecayStep(st, Head(todo), zap_user, zap_kernel), Tail(todo),
                   zap_user, zap_kernel)

hists__decay_entries(zap_user, zap_kernel) ==
    LET st == DecayLoop([heap |-> heap, freed |-> freed, entries |-> entries,
                         collapsed |-> entries_collapsed, stats |-> stats,
                         nr_entries |-> nr_entries,
                         nr_non_filtered_entries |-> nr_non_filtered_entries,
                         gone |-> FALSE],
                        entries, zap_user, zap_kernel)
    IN /\ heap' = st.heap
       /\ freed' = st.freed
       /\ entries' = st.entries
       /\ entries_collapsed' = st.collapsed
       /\ stats' = st.stats
       /\ nr_entries' = st.nr_entries
       /\ nr_non_filtered_entries' = st.nr_non_filtered_entries

Decay(zap_user, zap_kernel) ==
    /\ ~crashed
    /\ hists__decay_entries(zap_user, zap_kernel)
    /\ last_op' = Op("decay")
    /\ phase' = "any"
    /\ UNCHANGED <<entries_in_array, entries_in, dso_filter, thread_filter,
                   symbol_filter_str, sort__need_collapse, session_done, crashed,
                   inserted, liveVars, d64, linkVars, colVars,
                   toolVars, min_callchain_hits>>

(***************************************************************************)
(* hists__filter_by_dso / _thread / _symbol.                               *)
(***************************************************************************)
hists__remove_entry_filter_keepbit(st, h, filter) ==
    IF st.heap[h].filtered # {} THEN st
    ELSE hists__calc_col_len(
             hists__inc_filter_stats(
                 [st EXCEPT !.stats.nr_non_filtered_samples =
                                @ + st.heap[h].stat.nr_events], h), h)

\* hists__remove_entry_filter
hists__remove_entry_filter(st, h, filter) ==
    LET cleared == [st EXCEPT !.heap[h].filtered = @ \ {filter}]
    IN IF cleared.heap[h].filtered # {} THEN cleared
       ELSE hists__calc_col_len(
                hists__inc_filter_stats(
                    [cleared EXCEPT !.stats.nr_non_filtered_samples =
                                        @ + st.heap[h].stat.nr_events], h), h)

\* the body of the loop of hists__filter_by_<filter> for entry h
FilterStep(st, h, filter, value) ==
    LET bits == FilterBits(st.heap[h],
                           IF filter = "DSO" THEN value ELSE NULL,
                           IF filter = "THREAD" THEN value ELSE NULL,
                           IF filter = "SYMBOL" THEN value ELSE NoStr)
    IN IF filter = "DSO" /\ symbol_conf_exclude_other /\ st.heap[h].parent = NULL
       THEN st
       ELSE IF bits # {} THEN [st EXCEPT !.heap[h].filtered = @ \cup bits]
       ELSE hists__remove_entry_filter(st, h, filter)

RECURSIVE FilterLoop(_, _, _, _)
FilterLoop(st, todo, filter, value) ==
    IF todo = <<>> THEN st
    ELSE FilterLoop(FilterStep(st, Head(todo), filter, value), Tail(todo), filter, value)

FilterReset_none(st) == st

FilterReset_all(st) ==
    [st EXCEPT !.stats.nr_non_filtered_samples = 0,
               !.nr_non_filtered_entries = 0,
               !.stats.total_non_filtered_period = 0,
               !.stats.total_period = 0]

\* hists__reset_filter_stats, after nr_non_filtered_samples = 0
FilterReset(st) ==
    [st EXCEPT !.stats.nr_non_filtered_samples = 0,
               !.nr_non_filtered_entries = 0,
               !.stats.total_non_filtered_period = 0]

\* the pass over output index root of table image st = [heap, stats,
\* nr_non_filtered_entries, col_len], with hists-><filter>_filter set to value
FilterPassOn(st, root, filter, value) ==
    FilterLoop(hists__reset_col_len(FilterReset(st)), root, filter, value)

\* the pass, with hists-><filter>_filter set to value
hists__filter_by(filter, value) ==
    LET st == FilterPassOn([heap |-> heap, stats |-> stats,
                            nr_non_filtered_entries |-> nr_non_filtered_entries,
                            col_len |-> col_len],
                           entries, filter, value)
    IN /\ heap' = st.heap
       /\ col_len' = st.col_len
       /\ stats' = st.stats
       /\ nr_non_filtered_entries' = st.nr_non_filtered_entries

\* the browser sets hists->dso_filter and calls hists__filter_by_dso
FilterByDso(dso) ==
    /\ ~crashed
    /\ dso_filter' = dso
    /\ hists__filter_by("DSO", dso)
    /\ last_op' = Op("filter_dso")
    /\ phase' = "any"
    /\ UNCHANGED <<freed, entries_in_array, entries_in, entries_collapsed, entries,
                   nr_entries, thread_filter, symbol_filter_str, sort__need_collapse,
                   session_done, crashed, inserted, liveVars, d64, linkVars, hpp,
                   toolVars, min_callchain_hits>>

FilterByThread(thread) ==
    /\ ~crashed
    /\ thread_filter' = thread
    /\ hists__filter_by("THREAD", thread)
    /\ last_op' = Op("filter_thread")
    /\ phase' = "any"
    /\ UNCHANGED <<freed, entries_in_array, entries_in, entries_collapsed, entries,
                   nr_entries, dso_filter, symbol_filter_str, sort__need_collapse,
                   session_done, crashed, inserted, liveVars, d64, linkVars, hpp,
                   toolVars, min_callchain_hits>>

FilterBySymbol(str) ==
    /\ ~crashed
    /\ symbol_filter_str' = str
    /\ hists__filter_by("SYMBOL", str)
    /\ last_op' = Op("filter_symbol")
    /\ phase' = "any"
    /\ UNCHANGED <<freed, entries_in_array, entries_in, entries_collapsed, entries,
                   nr_entries, dso_filter, thread_filter, sort__need_collapse,
                   session_done, crashed, inserted, liveVars, d64, linkVars, hpp,
                   toolVars, min_callchain_hits>>

(***************************************************************************)
(* The environment of the table.                                           *)
(***************************************************************************)
\* the browser opens (closes) an entry of the output index: he->used
SetUsed(h, used) ==
    /\ ~crashed
    /\ h \in Range(entries)
    /\ heap[h].used # used
    /\ heap' = [heap EXCEPT ![h].used = used]
    /\ last_op' = Op("used")
    /\ phase' = "any"
    /\ UNCHANGED <<freed, entries_in_array, entries_in, entries_collapsed, entries,
                   stats, nr_entries, nr_non_filtered_entries, dso_filter,
                   thread_filter, symbol_filter_str, sort__need_collapse,
                   session_done, crashed, inserted, liveVars, d64, linkVars, colVars,
                   toolVars, min_callchain_hits>>

\* the handles an index still holds of entries that were freed
Dangling ==
    (Range(entries_in_array[1]) \cup Range(entries_in_array[2])
     \cup Range(entries_collapsed) \cup Range(entries)) \cap freed

\* Walking an index over a freed entry is undefined: the walk reads the bytes
\* the entry left behind (the other actions, which do not look at freed), or
\* the process faults.
Crash ==
    /\ ~crashed
    /\ Dangling # {}
    /\ crashed' = TRUE
    /\ last_op' = Op("crash")
    /\ phase' = "any"
    /\ UNCHANGED <<heap, freed, entries_in_array, entries_in, entries_collapsed,
                   entries, stats, nr_entries, nr_non_filtered_entries, dso_filter,
                   thread_filter, symbol_filter_str, sort__need_collapse,
                   session_done, inserted, liveVars, d64, linkVars, colVars,
                   toolVars, min_callchain_hits>>

(***************************************************************************)
(* The table under every operation, one caller at a time.                  *)
(***************************************************************************)
\* foo of libc in two threads of one command, bar of the kernel in a third
Samples ==
    {[thread |-> 1, sym |-> 1, map |-> 1, level |-> ".", parent |-> NULL,
      filtered |-> {}, period |-> 1, weight |-> 1, cpumode |-> "USER"],
     [thread |-> 2, sym |-> 1, map |-> 1, level |-> ".", parent |-> NULL,
      filtered |-> {}, period |-> 2, weight |-> 1, cpumode |-> "USER"],
     [thread |-> 3, sym |-> 2, map |-> 2, level |-> "k", parent |-> NULL,
      filtered |-> {}, period |-> 2, weight |-> 1, cpumode |-> "KERNEL"]}

Init ==
    InitTable /\ d64 = Idle /\ sort__need_collapse \in BOOLEAN /\ last_op = "off" /\ phase = "any"

Next ==
    \/ \E al \in Samples : Room(MaxTableSamples) /\ Insert(al)
    \/ Collapse
    \/ CollapseNop
    \/ Resort
    \/ \E zap_user, zap_kernel \in BOOLEAN : Decay(zap_user, zap_kernel)
    \/ \E dso \in {NULL, 1} : FilterByDso(dso)
    \/ \E h \in Range(entries), used \in BOOLEAN : SetUsed(h, used)
    \/ Crash

Spec == Init /\ [][Next]_vars

\* C10: no index references an entry that was freed.
NoFreedEntryInIndex == Dangling = {}

(***************************************************************************)
(* The totals under resort and the three filter passes of the browser.     *)
(***************************************************************************)
\* foo of libc in one thread, bar of the kernel in another
FilterSamples == {al \in Samples : al.thread # 2}

FilterPass ==
    \/ \E dso \in {NULL, 1} : FilterByDso(dso)
    \/ \E thread \in {NULL, 1} : FilterByThread(thread)
    \/ \E str \in {NoStr, <<<<"o", "o">>>>} : FilterBySymbol(str)

InitFilter == Init

NextFilter ==
    \/ \E al \in FilterSamples : Room(MaxTableSamples) /\ Insert(al)
    \/ Collapse
    \/ CollapseNop
    \/ Resort
    \/ FilterPass

SpecFilter == InitFilter /\ [][NextFilter]_vars

\* the entries of output index root that count as visible in heap image hp
Visible(hp, root) == {h \in Range(root) : hp[h].filtered = {} /\ ~hp[h].dummy}

ProdEnter(al) ==
    /\ ~crashed
    /\ prod.pc = "idle"
    /\ prod' = [pc |-> "walk", al |-> al, root |-> entries_in]
    /\ UNCHANGED <<tableVars, cons, d64, linkVars, colVars,
                   toolVars, min_callchain_hits>>

\* The parent of a new leaf is one of its in-order neighbours; which one is
\* the shape of the tree, which the in-order sequence does not keep.
LinkParents(root, pos) ==
    IF root = <<>> THEN {NULL}
    ELSE {root[i] : i \in {pos, pos + 1} \cap (1..Len(root))}

\* lines 347-384: the walk down the buffer read at line 345, to the entry
\* that compares equal or to the parent the new entry will hang from
ProdWalk ==
    /\ ~crashed
    /\ prod.pc = "walk"
    /\ LET entry == hists__add_entry_template(prod.al)
           root  == entries_in_array[prod.root]
           he    == FindIn(heap, root, entry)
       IN IF he # NULL
          THEN prod' = [pc |-> "merge", al |-> prod.al, root |-> prod.root, he |-> he]
          ELSE \E parent \in LinkParents(root, LinkPos(heap, root, entry)) :
                   prod' = [pc |-> "link", al |-> prod.al, root |-> prod.root,
                            parent |-> parent]
    /\ UNCHANGED <<tableVars, cons, d64, linkVars, colVars,
                   toolVars, min_callchain_hits>>

\* lines 359-376: he_stat__add_period and the map update on the entry found.
\* If the consumer freed the entry since the walk, the stores go to freed
\* memory: they land in the bytes the entry left behind, or the process
\* faults.
ProdMerge ==
    /\ ~crashed
    /\ prod.pc = "merge"
    /\ \/ /\ heap' = [heap EXCEPT
                         ![prod.he].stat =
                             he_stat__add_period(@, prod.al.period, prod.al.weight),
                         ![prod.he].map = prod.al.map]
          /\ prod' = [prod EXCEPT !.pc = "out"]
          /\ UNCHANGED crashed
       \/ /\ prod.he \in freed
          /\ crashed' = TRUE
          /\ UNCHANGED <<heap, prod>>
    /\ UNCHANGED <<freed, entries_in_array, entries_in, entries_collapsed, entries,
                   stats, nr_entries, nr_non_filtered_entries, dso_filter,
                   thread_filter, symbol_filter_str, sort__need_collapse,
                   session_done, inserted, last_op, phase, cons, d64, linkVars, colVars,
                   toolVars, min_callchain_hits>>

\* The index a node hangs in: rb_node_in links an entry into an insertion
\* buffer and, once it is collapsed, into the collapsed index.
IndexOf(h) ==
    IF h \in Range(entries_in_array[1]) THEN "in1"
    ELSE IF h \in Range(entries_in_array[2]) THEN "in2"
    ELSE IF h \in Range(entries_collapsed) THEN "collapsed"
    ELSE "none"

\* the position of parent in the in-order sequence s
Beside(s, parent) == CHOOSE i \in 1..Len(s) : s[i] = parent

\* lines 386-393: hist_entry__new, rb_link_node under the parent of the walk
\* and rb_insert_color.  The new node becomes a child of parent in whatever
\* tree parent hangs in by now: the buffer of the walk, the collapsed index
\* if the consumer moved parent there, or no tree at all if the consumer
\* freed parent (the stores then land in freed memory, or the process
\* faults).
ProdLink ==
    /\ ~crashed
    /\ prod.pc = "link"
    /\ \/ LET entry == hists__add_entry_template(prod.al)
              he    == Len(heap) + 1
              where == IF prod.parent = NULL THEN "empty" ELSE IndexOf(prod.parent)
          IN /\ heap' = Append(heap, hist_entry__new(entry))
             /\ prod' = [pc |-> "out", al |-> prod.al, root |-> prod.root, he |-> he]
             /\ CASE where = "empty" ->
                         /\ entries_in_array' =
                                [entries_in_array EXCEPT ![prod.root] = <<he>>]
                         /\ UNCHANGED entries_collapsed
                  [] where \in {"in1", "in2"} ->
                         /\ entries_in_array' =
                                [entries_in_array EXCEPT
                                    ![IF where = "in1" THEN 1 ELSE 2] =
                                        InsertAt(@, LinkPos(heap, @, entry), he)]
                         /\ UNCHANGED entries_collapsed
                  [] where = "collapsed" ->
                         /\ entries_collapsed' =
                                InsertAt(entries_collapsed,
                                         Beside(entries_collapsed, prod.parent), he)
                         /\ UNCHANGED entries_in_array
                  [] where = "none" ->
                         UNCHANGED <<entries_in_array, entries_collapsed>>
             /\ UNCHANGED crashed
       \/ /\ prod.parent # NULL
          /\ prod.parent \in freed
          /\ crashed' = TRUE
          /\ UNCHANGED <<heap, prod, entries_in_array, entries_collapsed>>
    /\ UNCHANGED <<freed, entries_in, entries, stats, nr_entries,
                   nr_non_filtered_entries, dso_filter, thread_filter,
                   symbol_filter_str, sort__need_collapse, session_done,
                   inserted, last_op, phase, cons, d64, linkVars, colVars,
                   toolVars, min_callchain_hits>>

\* line 395, the out: label, and the return of the entry
ProdOut ==
    /\ ~crashed
    /\ prod.pc = "out"
    /\ heap' = [heap EXCEPT ![prod.he].stat =
                   he_stat__add_cpumode_period(@, prod.al.cpumode, prod.al.period)]
    /\ inserted' = inserted (+) SetToBag({prod.al})
    /\ prod' = Idle
    /\ UNCHANGED <<freed, entries_in_array, entries_in, entries_collapsed, entries,
                   stats, nr_entries, nr_non_filtered_entries, dso_filter,
                   thread_filter, symbol_filter_str, sort__need_collapse,
                   session_done, crashed, last_op, phase, cons, d64, linkVars, colVars,
                   toolVars, min_callchain_hits>>

\* hists__collapse_resort up to the loop: hists__get_rotate_entries_in
\* under hists->lock (lines 523-529)
ConsRotate ==
    /\ ~crashed
    /\ cons.pc = "idle"
    /\ sort__need_collapse
    /\ cons' = [pc |-> "drain", root |-> entries_in]
    /\ entries_in' = Rotated(entries_in)
    /\ UNCHANGED <<heap, freed, entries_in_array, entries_collapsed, entries, stats,
                   nr_entries, nr_non_filtered_entries, dso_filter, thread_filter,
                   symbol_filter_str, sort__need_collapse, session_done, crashed,
                   inserted, last_op, phase, prod, d64, linkVars, colVars,
                   toolVars, min_callchain_hits>>

\* one turn of the loop (lines 553-569): the first entry of the rotated-out
\* buffer is erased from it and inserted into the collapsed index
ConsDrain ==
    /\ ~crashed
    /\ cons.pc = "drain"
    /\ ~session_done
    /\ entries_in_array[cons.root] # <<>>
    /\ LET n  == Head(entries_in_array[cons.root])
           st == hists__collapse_insert_entry(
                     [heap |-> heap, freed |-> freed, collapsed |-> entries_collapsed], n)
       IN /\ entries_in_array' = [entries_in_array EXCEPT ![cons.root] = Tail(@)]
          /\ heap' = st.heap
          /\ freed' = st.freed
          /\ entries_collapsed' = st.collapsed
    /\ UNCHANGED <<entries_in, entries, stats, nr_entries, nr_non_filtered_entries,
                   dso_filter, thread_filter, symbol_filter_str, sort__need_collapse,
                   session_done, crashed, inserted, last_op, phase, prod, cons, d64, linkVars, colVars,
                   toolVars, min_callchain_hits>>

\* the loop ends: no next entry, or session_done()
ConsReturn ==
    /\ ~crashed
    /\ cons.pc = "drain"
    /\ entries_in_array[cons.root] = <<>> \/ session_done
    /\ cons' = Idle
    /\ UNCHANGED <<tableVars, prod, d64, linkVars, colVars,
                   toolVars, min_callchain_hits>>

LiveSamples ==
    {[thread |-> th, sym |-> 1, map |-> 1, level |-> ".", parent |-> NULL,
      filtered |-> {}, period |-> th, weight |-> 1, cpumode |-> "USER"] :
        th \in {1, 2, 3}}

InitLive ==
    InitTable /\ d64 = Idle /\ sort__need_collapse = TRUE /\ last_op = "off" /\ phase = "any"

NextLive ==
    \/ \E al \in LiveSamples : Room(MaxSamples) /\ ProdEnter(al)
    \/ ProdWalk
    \/ ProdMerge
    \/ ProdLink
    \/ ProdOut
    \/ ConsRotate
    \/ ConsDrain
    \/ ConsReturn

SpecLive == InitLive /\ [][NextLive]_vars

\* the entries reachable from the two insertion buffers and the collapsed
\* index
Reachable ==
    (Range(entries_in_array[1]) \cup Range(entries_in_array[2])
     \cup Range(entries_collapsed)) \ freed

\* C4: whenever the producer is between two inserts, the periods of the
\* entries reachable from the two insertion buffers and the collapsed index
\* add up to the periods of the samples inserted so far: every sample is
\* counted once, whatever the interleaving with the consumer's collapse.
NoSampleLost ==
    (prod.pc = "idle" /\ ~crashed)
        => StatSum(heap, Reachable, "period")
               = SampleSum(inserted, BagToSet(inserted), "period")

\* C5: while the consumer drains the buffer it rotated out, the producer
\* neither links an entry into that buffer nor merges a sample into an entry
\* the walk found there; every write of the producer goes to the buffer that
\* is current when it writes.
DrainBufferStable ==
    [][(ProdMerge \/ ProdLink)
       => /\ prod.root = entries_in
          /\ cons.pc = "drain" => prod.root # cons.root]_vars

(***************************************************************************)
(* he_stat__decay at the width of the field: the period of an entry is any *)
(* u64, and the decay is applied to it.                                    *)
(***************************************************************************)
\* periods around the limb boundaries and around 2^64 / 7
DecayPeriods ==
    {<<l1, l2, 0, l4>> : l1 \in {0, 1, 7, 8, LimbBase - 1},
                         l2 \in {0, LimbBase - 1},
                         l4 \in {0, 1, 8192, 9362, 9363, 16384, 32768, LimbBase - 1}}

InitDecay ==
    /\ InitTable /\ sort__need_collapse = FALSE /\ last_op = "off" /\ phase = "any"
    /\ d64 \in {[pc |-> "set", period |-> x] : x \in DecayPeriods}

\* he_stat->period = (he_stat->period * 7) / 8
Decay64 ==
    /\ d64.pc = "set"
    /\ d64' = [pc |-> "done", old |-> d64.period, period |-> U64_decay(d64.period)]
    /\ UNCHANGED <<tableVars, liveVars, linkVars, colVars,
                   toolVars, min_callchain_hits>>

NextDecay == Decay64

SpecDecay == InitDecay /\ [][NextDecay]_vars

\* x < y on u64 limbs
U64Less(x, y) ==
    \E i \in U64Limbs : x[i] < y[i] /\ \A j \in U64Limbs : j > i => x[j] = y[j]

\* C9: the decayed period is floor(old * 7 / 8) for every old period of 64
\* bits, and it is below the old period unless that was zero.
DecayIsFloor ==
    d64.pc = "done" =>
        /\ \A i \in U64Limbs : d64.period[i] = Exact_decay(d64.old)[i]
        /\ d64.old # <<0, 0, 0, 0>> => U64Less(d64.period, d64.old)

(***************************************************************************)
(* Decay in the live view: entries are inserted, resorted, opened and      *)
(* closed in the browser, and decayed.                                     *)
(***************************************************************************)
AnyDecay == \E zap_user, zap_kernel \in BOOLEAN : Decay(zap_user, zap_kernel)

InitDecayTable ==
    /\ InitTable /\ d64 = Idle
    /\ sort__need_collapse \in BOOLEAN /\ last_op = "init" /\ phase = "any"

NextDecayTable ==
    \/ \E al \in FilterSamples : Room(MaxTableSamples) /\ Insert(al)
    \/ Collapse
    \/ CollapseNop
    \/ Resort
    \/ AnyDecay
    \/ \E h \in Range(entries), used \in BOOLEAN : SetUsed(h, used)

SpecDecayTable == InitDecayTable /\ [][NextDecayTable]_vars

\* the totals are the period sums of the output index of heap image hp
TotalsMatch(hp, root, st) ==
    /\ st.total_period = StatSum(hp, Range(root), "period")
    /\ st.total_non_filtered_period = StatSum(hp, Visible(hp, root), "period")

\* C11: a decay pass, with or without zap_user / zap_kernel, that starts with
\* total_period and total_non_filtered_period equal to the period sums of the
\* output index ends with them equal to the period sums of the entries that
\* remain in the output index.
DecayKeepsTotals ==
    [][(AnyDecay /\ TotalsMatch(heap, entries, stats))
       => TotalsMatch(heap', entries', stats')]_vars

\* the level of he matches zap_user / zap_kernel
Zapped(he, zap_user, zap_kernel) ==
    \/ zap_user /\ he.level = "."
    \/ zap_kernel /\ he.level # "."

\* C12 as stated: a decay pass leaves the Stat of an entry with used set
\* unchanged and does not erase it, whatever zap_user / zap_kernel are.
PinnedUntouched ==
    [][AnyDecay
       => \A h \in Range(entries) :
              heap[h].used => /\ h \in Range(entries') /\ (h \in freed' => h \in freed)
                              /\ heap'[h].stat = heap[h].stat]_vars

\* C12 as amended: a decay pass never erases or frees an entry with used set;
\* its period and nr_events are multiplied by 7/8 like any other entry's,
\* unless its level matches zap_user / zap_kernel or its period is 0 already,
\* and then its Stat is unchanged.
PinnedSurvives ==
    [][\A zap_user, zap_kernel \in BOOLEAN :
           Decay(zap_user, zap_kernel)
           => \A h \in Range(entries) :
                  heap[h].used
                  => /\ h \in Range(entries') /\ (h \in freed' => h \in freed)
                     /\ heap'[h].stat =
                            IF Zapped(heap[h], zap_user, zap_kernel)
                               \/ heap[h].stat.period = 0
                            THEN heap[h].stat
                            ELSE he_stat__decay(heap[h].stat)]_vars

\* an open entry went through a decay pass that took its period from 2 to 1
\* and its nr_events from 1 to 0, and is still in the output index
PinnedSurvivesWitness ==
    /\ last_op = "decay"
    /\ freed = {}
    /\ \E h \in Range(entries) :
           /\ heap[h].used
           /\ heap[h].stat.period = 1
           /\ heap[h].stat.nr_events = 0
           /\ heap[h].stat.period_sys = 2

\* the filter pass of one kind with one value, as a step of the table
FilterBy(filter, value) ==
    CASE filter = "DSO"    -> FilterByDso(value)
      [] filter = "THREAD" -> FilterByThread(value)
      [] filter = "SYMBOL" -> FilterBySymbol(value)

\* the values a filter of a kind is set to, and the value that removes it
FilterValues(filter) == IF filter = "SYMBOL" THEN {<<<<"o", "o">>>>} ELSE {1}

FilterNone(filter) == IF filter = "SYMBOL" THEN NoStr ELSE NULL

FilterKinds == {"DSO", "THREAD", "SYMBOL"}

\* total_non_filtered_period once the filter of that kind is removed again
\* from the primed state
TotalAfterRemoval(filter) ==
    FilterPassOn([heap |-> heap', stats |-> stats',
                  nr_non_filtered_entries |-> nr_non_filtered_entries',
                  col_len |-> col_len'],
                 entries', filter, FilterNone(filter)).stats.total_non_filtered_period

\* no entry of the output index carries the bit of that filter
NoBit(filter) == \A h \in Range(entries) : filter \notin heap[h].filtered

\* C13 as stated: from any reachable state, applying a filter and then
\* removing it restores total_non_filtered_period to its value before the
\* filter was applied.
FilterRoundTrip ==
    [][\A filter \in FilterKinds : \A value \in FilterValues(filter) :
           (FilterBy(filter, value) /\ NoBit(filter))
           => TotalAfterRemoval(filter) = stats.total_non_filtered_period]_vars

\* C13 as amended: it does so when, before the filter was applied,
\* total_non_filtered_period was the period sum of the entries of the output
\* index with an empty filtered bitset.
FilterRoundTripFromFresh ==
    [][\A filter \in FilterKinds : \A value \in FilterValues(filter) :
           (/\ FilterBy(filter, value)
            /\ NoBit(filter)
            /\ stats.total_non_filtered_period
                   = StatSum(heap, Visible(heap, entries), "period"))
           => TotalAfterRemoval(filter) = stats.total_non_filtered_period]_vars

\* a thread filter hides bar (period 2) and leaves foo (period 1) visible
\* (removing it makes the total 3 again)
FilterRoundTripWitness ==
    /\ thread_filter = 1
    /\ dso_filter = NULL
    /\ symbol_filter_str = NoStr
    /\ Len(entries) = 2
    /\ \E h \in Range(entries) : heap[h].filtered = {"THREAD"}
    /\ stats.total_non_filtered_period = 1
    /\ FilterPassOn([heap |-> heap, stats |-> stats,
                     nr_non_filtered_entries |-> nr_non_filtered_entries,
                     col_len |-> col_len],
                    entries, "THREAD", NULL).stats.total_non_filtered_period = 3

(***************************************************************************)
(* The report with a DSO filter: insert, collapse, resort, filter.         *)
(***************************************************************************)
DsoValues == {NULL, 1, 2}

InitFilterBatch == InitBatch

\* foo:10, foo:5 and bar:7 of one thread
FilterBatchSamples == {al \in BatchSamples : al.thread = 1}

NextFilterBatch ==
    \/ \E al \in FilterBatchSamples : Room(MaxSamples) /\ Insert(al)
    \/ Collapse
    \/ CollapseNop
    \/ Resort
    \/ \E dso \in DsoValues : FilterByDso(dso)

SpecFilterBatch == InitFilterBatch /\ [][NextFilterBatch]_vars

\* the entries of index root with an empty filtered bitset in heap image hp
Unfiltered(hp, root) == {h \in Range(root) : hp[h].filtered = {}}

OnlyBitsDiffer(hp1, hp2) ==
    /\ DOMAIN hp2 = DOMAIN hp1
    /\ \A h \in DOMAIN hp1 : hp2[h] = [hp1[h] EXCEPT !.filtered = hp2[h].filtered]

\* C15: a filter pass (by dso, thread or symbol substring) adds no entry to
\* and removes none from the insertion buffers, the collapsed index and the
\* output index, frees nothing, and leaves every entry's Stat, nr_entries and
\* total_period as they were: only filtered bits and the non-filtered
\* counters change.
FilterFrame ==
    [][FilterPass
       => /\ entries_in_array' = entries_in_array
          /\ entries_collapsed' = entries_collapsed
          /\ entries' = entries
          /\ freed' = freed
          /\ OnlyBitsDiffer(heap, heap')
          /\ nr_entries' = nr_entries
          /\ stats'.total_period = stats.total_period]_vars

\* a symbol filter hides bar (period 2) next to foo (period 1): both are
\* still in the output index and in the totals of all entries
FilterFrameWitness ==
    /\ symbol_filter_str # NoStr
    /\ dso_filter = NULL
    /\ thread_filter = NULL
    /\ Len(entries) = 2
    /\ \E h \in Range(entries) :
           heap[h].filtered = {"SYMBOL"} /\ heap[h].stat.period = 2
    /\ nr_entries = 2
    /\ stats.total_period = 3
    /\ stats.total_non_filtered_period = 1

\* the table image a filter pass reads and writes, in the primed state
FilterImageAfter ==
    [heap |-> heap', stats |-> stats',
     nr_non_filtered_entries |-> nr_non_filtered_entries', col_len |-> col_len']

\* C16: the same filter pass with the same value, run again right after
\* itself, leaves the filtered bits, total_non_filtered_period,
\* nr_non_filtered_entries and nr_non_filtered_samples as the first run left
\* them.
FilterIdempotent ==
    [][\A filter \in FilterKinds :
           \A value \in FilterValues(filter) \cup {FilterNone(filter)} :
               FilterBy(filter, value)
               => FilterPassOn(FilterImageAfter, entries', filter, value)
                      = FilterImageAfter]_vars

\* a dso filter and a thread filter are both set and hide bar, which was
\* counted neither once nor twice
FilterIdempotentWitness ==
    /\ dso_filter = 1
    /\ thread_filter = 1
    /\ Len(entries) = 2
    /\ \E h \in Range(entries) : heap[h].filtered = {"DSO", "THREAD"}
    /\ \E h \in Range(entries) :
           heap[h].filtered = {} /\ heap[h].stat.nr_events = stats.nr_non_filtered_samples
    /\ nr_non_filtered_entries = 1
    /\ stats.total_non_filtered_period = 1

(***************************************************************************)
(* hists__match and hists__link.  The table of the variables is the        *)
(* leader; the other table is finished before the leader starts, and its   *)
(* collapsed (or insertion) index is other.root.  The entries of both      *)
(* tables are in heap.  The caller builds the other table, then the        *)
(* leader, then calls hists__match and hists__link once each, in that      *)
(* order: other.stage is "none", "built", "matched", "linked".             *)
(***************************************************************************)
\* the entry h is paired with, or NULL
hist_entry__next_pair(p, h) ==
    IF \E e \in p : e[1] = h THEN (CHOOSE e \in p : e[1] = h)[2] ELSE NULL

hist_entry__has_pairs(p, h) == hist_entry__next_pair(p, h) # NULL

\* the reference is stored on both sides
hist_entry__add_pair(p, pair, he) ==
    {e \in p : e[1] \notin {pair, he}} \cup {<<pair, he>>, <<he, pair>>}

\* the index hists__match, hists__link and their helpers choose
LinkRoot ==
    IF sort__need_collapse THEN entries_collapsed ELSE entries_in_array[entries_in]

\* the table is finished and becomes the other one; a second table, the
\* leader, starts from hists__init
StartLeader ==
    /\ ~crashed
    /\ other.stage = "none"
    /\ LinkRoot # <<>>
    /\ other' = [root |-> LinkRoot, stage |-> "built"]
    /\ entries_in_array' = <<<<>>, <<>>>>
    /\ entries_in' = 1
    /\ entries_collapsed' = <<>>
    /\ entries' = <<>>
    /\ stats' = [total_period |-> 0, total_non_filtered_period |-> 0,
                 nr_non_filtered_samples |-> 0]
    /\ nr_entries' = 0
    /\ nr_non_filtered_entries' = 0
    /\ dso_filter' = NULL
    /\ thread_filter' = NULL
    /\ symbol_filter_str' = NoStr
    /\ inserted' = EmptyBag
    /\ last_op' = Op("leader")
    /\ phase' = "any"
    /\ UNCHANGED <<heap, freed, sort__need_collapse, session_done, crashed, pairs,
                   liveVars, d64, colVars,
                   toolVars, min_callchain_hits>>

hists__find_entry_first(hp, root, he) ==
    IF root = <<>> THEN NULL ELSE root[1]

\* hists__find_entry: the entry of root at the collapse key of he, or NULL
hists__find_entry(hp, root, he) ==
    LET hit == {i \in 1..Len(root) : hist_entry__collapse(hp[root[i]], hp[he]) = 0}
    IN IF hit = {} THEN NULL ELSE root[CHOOSE i \in hit : \A j \in hit : i <= j]

MatchLoop_first(p, todo) ==
    IF todo = <<>> THEN p
    ELSE LET pos  == Head(todo)
             pair == hists__find_entry(heap, other.root, pos)
         IN IF pair # NULL THEN hist_entry__add_pair(p, pair, pos) ELSE p

\* the loop of hists__match over the leader's entries todo, first to last
RECURSIVE MatchLoop(_, _)
MatchLoop(p, todo) ==
    IF todo = <<>> THEN p
    ELSE LET pos  == Head(todo)
             pair == hists__find_entry(heap, other.root, pos)
         IN MatchLoop(IF pair # NULL THEN hist_entry__add_pair(p, pair, pos) ELSE p,
                      Tail(todo))

hists__match ==
    pairs' = MatchLoop(pairs, LinkRoot)

Match ==
    /\ ~crashed
    /\ other.stage = "built"
    /\ hists__match
    /\ other' = [other EXCEPT !.stage = "matched"]
    /\ last_op' = Op("match")
    /\ phase' = "any"
    /\ UNCHANGED <<heap, freed, entries_in_array, entries_in, entries_collapsed,
                   entries, stats, nr_entries, nr_non_filtered_entries, dso_filter,
                   thread_filter, symbol_filter_str, sort__need_collapse,
                   session_done, crashed, inserted, liveVars, d64, colVars,
                   toolVars, min_callchain_hits>>

hists__add_dummy_entry_counted(st, pair) ==
    LET he == hists__find_entry(st.heap, st.root, pair)
        h  == Len(st.heap) + 1
        l  == [st EXCEPT
                  !.heap = Append(@, [hist_entry__new(st.heap[pair]) EXCEPT
                                         !.stat = st.heap[pair].stat]),
                  !.root = InsertAt(@, CollapsePos(st.heap, @, pair), h)]
        c  == hists__inc_stats(l, h)
    IN IF he # NULL THEN [st EXCEPT !.he = he]
       ELSE [c EXCEPT !.heap[h].dummy = TRUE, !.he = h, !.made = @ \cup {h}]

\* hists__add_dummy_entry of the leader st = [heap, root, stats, nr_entries,
\* nr_non_filtered_entries, pairs, he, made] for the entry pair of the
\* other table; the entry it returns is st.he
hists__add_dummy_entry(st, pair) ==
    LET he == hists__find_entry(st.heap, st.root, pair)
        h  == Len(st.heap) + 1
        l  == [st EXCEPT
                  !.heap = Append(@, [hist_entry__new(st.heap[pair]) EXCEPT
                                         !.stat = ZeroStat]),
                  !.root = InsertAt(@, CollapsePos(st.heap, @, pair), h)]
        c  == hists__inc_stats(l, h)
    IN IF he # NULL THEN [st EXCEPT !.he = he]
       ELSE [c EXCEPT !.heap[h].dummy = TRUE, !.he = h, !.made = @ \cup {h}]

LinkLoop_head(st, todo) ==
    IF todo = <<>> THEN st
    ELSE LET pos == Head(todo)
             d   == hists__add_dummy_entry(st, pos)
         IN IF ~hist_entry__has_pairs(st.pairs, pos)
            THEN [d EXCEPT !.pairs = hist_entry__add_pair(@, pos, d.he)]
            ELSE st

\* the loop of hists__link over the other table's entries todo
RECURSIVE LinkLoop(_, _)
LinkLoop(st, todo) ==
    IF todo = <<>> THEN st
    ELSE LET pos == Head(todo)
             d   == hists__add_dummy_entry(st, pos)
         IN LinkLoop(IF ~hist_entry__has_pairs(st.pairs, pos)
                     THEN [d EXCEPT !.pairs = hist_entry__add_pair(@, pos, d.he)]
                     ELSE st,
                     Tail(todo))

\* hists__link over the first k entries of the other table
LinkPass(k) ==
    LET st == LinkLoop([heap |-> heap, root |-> LinkRoot, stats |-> stats,
                        nr_entries |-> nr_entries,
                        nr_non_filtered_entries |-> nr_non_filtered_entries,
                        pairs |-> pairs, he |-> NULL, made |-> {}],
                       SubSeq(other.root, 1, k))
    IN /\ heap' = st.heap
       /\ IF sort__need_collapse
          THEN entries_collapsed' = st.root /\ UNCHANGED entries_in_array
          ELSE /\ entries_in_array' = [entries_in_array EXCEPT ![entries_in] = st.root]
               /\ UNCHANGED entries_collapsed
       /\ stats' = st.stats
       /\ nr_entries' = st.nr_entries
       /\ nr_non_filtered_entries' = st.nr_non_filtered_entries
       /\ pairs' = st.pairs

\* hists__link returns 0
Link ==
    /\ ~crashed
    /\ other.stage = "matched"
    /\ LinkPass(Len(other.root))
    /\ other' = [other EXCEPT !.stage = "linked"]
    /\ last_op' = Op("link")
    /\ phase' = "any"
    /\ UNCHANGED <<freed, entries_in, entries, dso_filter, thread_filter,
                   symbol_filter_str, sort__need_collapse, session_done, crashed,
                   inserted, liveVars, d64, colVars,
                   toolVars, min_callchain_hits>>

\* hist_entry__new returns NULL for the dummy entry of the other table's
\* entry k: hists__link returns -1 there
LinkNoMem(k) ==
    /\ ~crashed
    /\ other.stage = "matched"
    /\ k \in 1..Len(other.root)
    /\ ~hist_entry__has_pairs(pairs, other.root[k])
    /\ LinkPass(k - 1)
    /\ other' = [other EXCEPT !.stage = "link_enomem"]
    /\ last_op' = Op("link_enomem")
    /\ phase' = "any"
    /\ UNCHANGED <<freed, entries_in, entries, dso_filter, thread_filter,
                   symbol_filter_str, sort__need_collapse, session_done, crashed,
                   inserted, liveVars, d64, colVars,
                   toolVars, min_callchain_hits>>

InitLink ==
    /\ InitTable
    /\ d64 = Idle
    /\ sort__need_collapse \in BOOLEAN
    /\ last_op = "init"
    /\ phase = "any"

\* the two tables are built, matched and linked; the leader is resorted
\* once it is linked
NextLink ==
    \/ \E al \in Samples :
           other.stage \in {"none", "built"} /\ Room(MaxTableSamples) /\ Insert(al)
    \/ Collapse
    \/ CollapseNop
    \/ StartLeader
    \/ Match
    \/ Link
    \/ \E k \in 1..MaxTableSamples + 1 : LinkNoMem(k)
    \/ other.stage = "linked" /\ Resort

SpecLink == InitLink /\ [][NextLink]_vars

\* the entries of root at the collapse key of entry h
AtKey(hp, root, h) ==
    {a \in Range(root) : hist_entry__collapse(hp[a], hp[h]) = 0}

\* C17 as stated: after match and link every collapse key of the leader or
\* of the other table is in the leader's output index.
LinkedKeysInOutput ==
    other.stage = "linked" =>
        \A h \in Range(other.root) \cup Range(LinkRoot) : AtKey(heap, entries, h) # {}

\* C17 as amended: after match and link every collapse key of the leader or
\* of the other table is in the leader's collapsed (or insertion) index, as
\* a real or a dummy entry, and it is in the leader's output index once the
\* leader is resorted.
LinkedKeysInIndex ==
    other.stage = "linked" =>
        \A h \in Range(other.root) \cup Range(LinkRoot) :
            /\ AtKey(heap, LinkRoot, h) # {}
            /\ last_op = "resort" => AtKey(heap, entries, h) # {}

\* a resorted leader shows a dummy entry, a paired real entry and an entry
\* of its own that has no pair
LinkedKeysInIndexWitness ==
    /\ other.stage = "linked"
    /\ last_op = "resort"
    /\ \E d, a, l \in Range(entries) :
           /\ heap[d].dummy /\ hist_entry__has_pairs(pairs, d)
           /\ ~heap[a].dummy /\ hist_entry__has_pairs(pairs, a)
           /\ ~heap[l].dummy /\ ~hist_entry__has_pairs(pairs, l)

\* C18: after match and link the pair relation is stored on both sides: a
\* leader entry that is not a dummy and is paired with an entry b of the
\* other table is the pair of b.
PairSymmetric ==
    other.stage = "linked" =>
        \A a \in Range(LinkRoot) :
            ~heap[a].dummy /\ hist_entry__has_pairs(pairs, a) =>
                LET b == hist_entry__next_pair(pairs, a)
                IN /\ b \in Range(other.root)
                   /\ ~heap[b].dummy
                   /\ hist_entry__next_pair(pairs, b) = a

\* a real entry of the leader is paired with a real entry of the other
\* table, next to a dummy entry that link made
PairSymmetricWitness ==
    /\ other.stage = "linked"
    /\ \E a, d \in Range(LinkRoot) :
           /\ ~heap[a].dummy
           /\ hist_entry__next_pair(pairs, a) \in Range(other.root)
           /\ heap[a].stat.period # heap[hist_entry__next_pair(pairs, a)].stat.period
           /\ heap[d].dummy

\* the dummy entries a step allocated
Made == {h \in DOMAIN heap' \ DOMAIN heap : heap'[h].dummy}

\* C20 as stated: when hists__link returns 0 every entry of the other
\* table's index has a pair; for each of them that had none before the call
\* the leader's collapsed (or insertion) index holds an entry at the equal
\* collapse key with an all-zero Stat that is linked to it; and the leader's
\* nr_entries grew by the number of dummy entries created.
LinkCompletes ==
    [][Link =>
          /\ \A b \in Range(other.root) : hist_entry__has_pairs(pairs', b)
          /\ \A b \in Range(other.root) :
                 ~hist_entry__has_pairs(pairs, b) =>
                     \E a \in AtKey(heap', LinkRoot', b) :
                         /\ heap'[a].stat = ZeroStat
                         /\ hist_entry__next_pair(pairs', b) = a
                         /\ hist_entry__next_pair(pairs', a) = b
          /\ nr_entries' = nr_entries + Cardinality(Made)]_vars

\* C20 as amended: the entry linked to an entry of the other table that had
\* no pair is a new dummy entry with an all-zero Stat when the leader's
\* index had no entry at the collapse key, and the leader's entry at that
\* key, left as it was, when it had one.
LinkCompletesOrReuses ==
    [][Link =>
          /\ \A b \in Range(other.root) : hist_entry__has_pairs(pairs', b)
          /\ \A b \in Range(other.root) :
                 ~hist_entry__has_pairs(pairs, b) =>
                     \E a \in AtKey(heap', LinkRoot', b) :
                         /\ hist_entry__next_pair(pairs', b) = a
                         /\ hist_entry__next_pair(pairs', a) = b
                         /\ IF AtKey(heap, LinkRoot, b) = {}
                            THEN a \in Made /\ heap'[a].stat = ZeroStat
                            ELSE a \in AtKey(heap, LinkRoot, b) /\ heap'[a] = heap[a]
          /\ nr_entries' = nr_entries + Cardinality(Made)]_vars

\* link has just given a leader of one real, paired entry a dummy entry for
\* a key of the other table, and counted it
LinkCompletesWitness ==
    /\ last_op = "link"
    /\ nr_entries = 1
    /\ \E a, d \in Range(LinkRoot) :
           /\ ~heap[a].dummy
           /\ hist_entry__has_pairs(pairs, a)
           /\ heap[d].dummy
           /\ heap[d].stat = ZeroStat
           /\ heap[hist_entry__next_pair(pairs, d)].stat.period > 0

(***************************************************************************)
(* The leader after the link: it takes further samples and is collapsed,   *)
(* resorted and decayed.                                                   *)
(***************************************************************************)
InitLinkLater == InitLink

NextLinkLater ==
    \/ NextLink
    \/ \E al \in Samples :
           other.stage = "linked" /\ Room(MaxTableSamples) /\ Insert(al)
    \/ other.stage = "linked" /\ Decay(FALSE, FALSE)

SpecLinkLater == InitLinkLater /\ [][NextLinkLater]_vars

\* the entries the leader's indexes hold
LeaderEntries ==
    (Range(entries_in_array[1]) \cup Range(entries_in_array[2])
     \cup Range(entries_collapsed) \cup Range(entries)) \ freed

\* C19: in every state after the link an entry with the dummy flag has
\* period 0; right after a resort it is counted in nr_entries and the
\* totals are the period sums of the entries without the flag.
DummyStaysEmpty ==
    other.stage = "linked" =>
        /\ \A h \in LeaderEntries : heap[h].dummy => heap[h].stat.period = 0
        /\ last_op = "resort" =>
               /\ nr_entries = Len(entries)
               /\ stats.total_period =
                      StatSum(heap, {h \in Range(entries) : ~heap[h].dummy}, "period")
               /\ stats.total_non_filtered_period =
                      StatSum(heap, {h \in Range(entries) : ~heap[h].dummy
                                                             /\ heap[h].filtered = {}},
                              "period")

(***************************************************************************)
(* The failure of an insert.                                               *)
(***************************************************************************)
InitInsertFail ==
    /\ InitTable
    /\ d64 = Idle
    /\ sort__need_collapse \in BOOLEAN
    /\ last_op = "init"
    /\ phase = "ins"

\* the samples of Samples, and bar of the kernel in the first thread
FailSamples ==
    Samples \cup {[thread |-> 1, sym |-> 2, map |-> 2, level |-> "k", parent |-> NULL,
                   filtered |-> {}, period |-> 1, weight |-> 2, cpumode |-> "KERNEL"]}

NextInsertFail ==
    \E al \in FailSamples : Room(MaxSamples) /\ (Insert(al) \/ InsertNoMem(al))

SpecInsertFail == InitInsertFail /\ [][NextInsertFail]_vars

\* C21: an insert fails only when the allocation of the new entry fails:
\* the failed insert links no node and changes no entry, and a sample whose
\* key is in the insertion index never fails.
InsertFailsClean ==
    [][\A al \in FailSamples :
           LET he == FindIn(heap, entries_in_array[entries_in],
                            hists__add_entry_template(al))
           IN /\ InsertNoMem(al) =>
                     /\ he = NULL
                     /\ heap' = heap
                     /\ entries_in_array' = entries_in_array
                     /\ entries_in' = entries_in
                     /\ nr_entries' = nr_entries
                     /\ stats' = stats
              /\ he # NULL => ~InsertNoMem(al)]_vars

\* an insert has just failed on a table whose one entry holds two samples
InsertFailsCleanWitness ==
    /\ last_op = "insert_enomem"
    /\ Len(entries_in_array[entries_in]) = 1
    /\ \E h \in CurrentIn : heap[h].stat.nr_events = 2

(***************************************************************************)
(* builtin-c2c.c: the column lists of a table, built from dimension names. *)
(* A list is a string of names separated by ", ", or NULL: [given, toks].  *)
(* hpp = [pc, ret, fields, sorts, output, sort] holds the last call's      *)
(* arguments and result and the two column lists of the table.             *)
(***************************************************************************)
MaxTokens == 2

\* names of the dimensions[] array, of the sort keys of sort.c, and of nothing
C2cDimensions == {"dcacheline"}

GenericDimensions == {"pid"}

Names == C2cDimensions \cup GenericDimensions \cup {"bogus"}

get_dimension(name) == name \in C2cDimensions

\* get_format: the format of a dimension of the array, NULL for other names
get_format(name) == IF get_dimension(name) THEN name ELSE "NULL"

\* output_field_add and sort_dimension__add of sort.c
output_field_add(st, name) ==
    IF name \in GenericDimensions
    THEN [st EXCEPT !.fields = Append(@, name), !.ret = "0"]
    ELSE [st EXCEPT !.ret = "-ESRCH"]

sort_dimension__add(st, name) ==
    IF name \in GenericDimensions
    THEN [st EXCEPT !.sorts = Append(@, name), !.ret = "0"]
    ELSE [st EXCEPT !.ret = "-ESRCH"]

c2c_hists__init_output(st, name) ==
    IF get_format(name) = "NULL" THEN output_field_add(st, name)
    ELSE [st EXCEPT !.fields = Append(@, name), !.ret = "0"]

c2c_hists__init_sort(st, name) ==
    IF get_format(name) = "NULL" THEN sort_dimension__add(st, name)
    ELSE [st EXCEPT !.sorts = Append(@, name), !.ret = "0"]

\* the for loop of PARSE_LIST over the tokens toks, with _fn the output or
\* the sort function
RECURSIVE ParseLoop(_, _, _)
ParseLoop(st, toks, fn) ==
    IF toks = <<>> THEN st
    ELSE LET r == IF fn = "output" THEN c2c_hists__init_output(st, Head(toks))
                  ELSE c2c_hists__init_sort(st, Head(toks))
         IN IF r.ret \in {"-EINVAL", "-ESRCH"} THEN r
            ELSE ParseLoop(r, Tail(toks), fn)

\* PARSE_LIST: ret = 0, then the loop unless the list is NULL
PARSE_LIST(st, list, fn) ==
    LET z == [st EXCEPT !.ret = "0"]
    IN IF ~list.given THEN z ELSE ParseLoop(z, list.toks, fn)

\* perf_hpp__setup_output_field: the sort keys become output fields too
perf_hpp__setup_output_field(st) ==
    [st EXCEPT !.fields = @ \o SelectSeq(st.sorts, LAMBDA n : n \notin Range(st.fields))]

hpp_list__parse(st, output_, sort_) ==
    perf_hpp__setup_output_field(
        PARSE_LIST(PARSE_LIST(st, output_, "output"), sort_, "sort"))

NoList == [given |-> FALSE, toks |-> <<>>]

\* the strings of at most MaxTokens names
TokenLists ==
    UNION {[1..n -> Names] : n \in 0..MaxTokens}

Lists == {NoList} \cup {[given |-> TRUE, toks |-> t] : t \in TokenLists}

\* c2c_hists__init(hists, sort): sort fields only
C2cHistsInit(sort) ==
    /\ hpp.pc = "idle"
    /\ LET st == hpp_list__parse([ret |-> "0", fields |-> <<>>, sorts |-> <<>>],
                                 NoList, sort)
       IN hpp' = [pc |-> "init", ret |-> st.ret, fields |-> st.fields,
                  sorts |-> st.sorts, output |-> NoList, sort |-> sort]
    /\ UNCHANGED <<tableVars, liveVars, d64, linkVars, col_len,
                   toolVars, min_callchain_hits>>

\* c2c_hists__reinit(c2c_hists, output, sort): perf_hpp__reset_output_field
\* empties both lists, then they are parsed again
C2cHistsReinit(output, sort) ==
    /\ hpp.pc = "init"
    /\ hpp.ret = "0"
    /\ LET st == hpp_list__parse([ret |-> "0", fields |-> <<>>, sorts |-> <<>>],
                                 output, sort)
       IN hpp' = [pc |-> "reinit", ret |-> st.ret, fields |-> st.fields,
                  sorts |-> st.sorts, output |-> output, sort |-> sort]
    /\ UNCHANGED <<tableVars, liveVars, d64, linkVars, col_len,
                   toolVars, min_callchain_hits>>

InitParse ==
    /\ InitTable
    /\ d64 = Idle
    /\ sort__need_collapse = FALSE
    /\ last_op = "off"
    /\ phase = "any"

NextParse ==
    \/ \E sort \in Lists : sort.given /\ C2cHistsInit(sort)
    \/ \E output, sort \in Lists : C2cHistsReinit(output, sort)

SpecParse == InitParse /\ [][NextParse]_vars

\* the name resolves to a column
Resolves(name) == name \in C2cDimensions \cup GenericDimensions

\* C22: hpp_list__parse returns a non-zero error when a token of the output
\* list or of the sort list resolves to no column.
ParseRejectsUnknown ==
    hpp.pc \in {"init", "reinit"} =>
        ((\E name \in Range(hpp.output.toks) \cup Range(hpp.sort.toks) : ~Resolves(name))
            => hpp.ret # "0")

(***************************************************************************)
(* Live mode with the whole consumer: the display thread collapses (step   *)
(* by step, as above), resorts, decays and filters, one pass at a time,    *)
(* while the sampling thread is anywhere inside add_hist_entry.            *)
(***************************************************************************)
InitLiveView ==
    /\ InitTable
    /\ d64 = Idle
    /\ sort__need_collapse \in BOOLEAN
    /\ last_op = "off"
    /\ phase = "any"

NextLiveView ==
    \/ \E al \in LiveSamples : Room(MaxTableSamples) /\ ProdEnter(al)
    \/ ProdWalk
    \/ ProdMerge
    \/ ProdLink
    \/ ProdOut
    \/ ConsRotate
    \/ ConsDrain
    \/ ConsReturn
    \/ cons.pc = "idle" /\ Resort
    \/ cons.pc = "idle" /\ Decay(FALSE, FALSE)
    \/ \E thread \in {NULL, 1} : cons.pc = "idle" /\ FilterByThread(thread)

SpecLiveView == InitLiveView /\ [][NextLiveView]_vars

\* the entries of the indexes the consumer owns
ConsumerOwned == Range(entries_collapsed) \cup Range(entries)

\* C23: in live mode, with or without collapsing, the producer's insert
\* modifies no entry that is reachable from the collapsed index or the
\* output index: it neither adds a sample to such an entry nor links a new
\* entry under it.
ProducerKeepsOut ==
    [][/\ (ProdMerge \/ ProdOut) => prod.he \notin ConsumerOwned
       /\ ProdLink => prod.parent \notin ConsumerOwned]_vars

(***************************************************************************)
(* The collapse pass that session_done() abandons.  The display thread     *)
(* calls hists__collapse_resort again and again.                           *)
(***************************************************************************)
InitAbandon ==
    /\ InitTable
    /\ d64 = Idle
    /\ sort__need_collapse = TRUE
    /\ last_op = "init"
    /\ phase = "ins"

CollapseAny == Collapse \/ \E k \in 0..MaxSamples : CollapseAbandoned(k)

NextAbandon ==
    \/ \E al \in Samples : Room(MaxSamples) /\ Insert(al)
    \/ Collapse
    \/ \E k \in 0..MaxSamples : CollapseAbandoned(k)
    \/ SessionDone

SpecAbandon == InitAbandon /\ [][NextAbandon]_vars /\ WF_vars(CollapseAny)

\* the entries of the two insertion buffers and the collapsed index
Indexed(in, col) == Range(in[1]) \cup Range(in[2]) \cup Range(col)

\* no entry is twice in the indexes
IndexedOnce(in, col) ==
    LET all == in[1] \o in[2] \o col
    IN \A i, j \in 1..Len(all) : i # j => all[i] # all[j]

\* C24 as stated, its last part: the entries an abandoned pass left behind
\* are moved into the collapsed index by a later collapse pass.
AbandonedEntriesMoved ==
    (last_op = "collapse_abandoned") ~> (entries_in_array = <<<<>>, <<>>>>)

\* C24 as amended: at the point of abandonment every entry is in exactly
\* one of the two insertion buffers or the collapsed index, or was merged
\* into a survivor and freed, and no Stat is lost; the entries left behind
\* stay in the buffer that was rotated out, and while session_done() stays
\* true no later collapse pass moves any of them.
AbandonedPassSafe ==
    [][/\ last_op' = "collapse_abandoned" =>
              /\ IndexedOnce(entries_in_array', entries_collapsed')
              /\ \A h \in Indexed(entries_in_array, entries_collapsed) :
                     (h \in Indexed(entries_in_array', entries_collapsed'))
                         # (h \in freed')
              /\ Indexed(entries_in_array', entries_collapsed')
                     \subseteq Indexed(entries_in_array, entries_collapsed)
              /\ \A f \in StatFields :
                     StatSum(heap', Indexed(entries_in_array', entries_collapsed'), f)
                         = StatSum(heap, Indexed(entries_in_array, entries_collapsed), f)
       /\ (session_done /\ CollapseAny) =>
              /\ entries_in_array' = entries_in_array
              /\ entries_collapsed' = entries_collapsed
              /\ heap' = heap]_vars

\* a pass was abandoned after it merged one entry into a survivor, with an
\* entry left behind in the buffer it rotated out
AbandonedPassSafeWitness ==
    /\ last_op = "collapse_abandoned"
    /\ freed # {}
    /\ Len(entries_collapsed) = 1
    /\ heap[entries_collapsed[1]].stat.nr_events = 2
    /\ entries_in_array[Rotated(entries_in)] # <<>>

\* every index of the table
AllIndexed ==
    Range(entries_in_array[1]) \cup Range(entries_in_array[2])
        \cup Range(entries_collapsed) \cup Range(entries)

\* C25: a decay pass strictly lowers the period of every unpinned entry of
\* the output index that has one, and an unpinned entry whose period has
\* reached zero is removed: the table holds it in no index.
EntryDecaysAway ==
    [][Decay(FALSE, FALSE) =>
          \A h \in Range(entries) \ freed :
              ~heap[h].used =>
                  /\ heap[h].stat.period > 0 =>
                         heap'[h].stat.period < heap[h].stat.period
                  /\ heap'[h].stat.period = 0 => h \notin AllIndexed']_vars

\* C26: when no dimension asks for a collapse, hists__collapse_resort does
\* nothing: the insertion buffers are not rotated, no entry is moved or
\* freed, and the collapsed index and every counter stay as they were.
CollapseNoOp ==
    [][(~sort__need_collapse /\ last_op' = "collapse") =>
          /\ entries_in' = entries_in
          /\ entries_in_array' = entries_in_array
          /\ entries_collapsed' = entries_collapsed
          /\ entries' = entries
          /\ heap' = heap
          /\ freed' = freed
          /\ stats' = stats
          /\ nr_entries' = nr_entries
          /\ nr_non_filtered_entries' = nr_non_filtered_entries]_vars

\* the call has returned on a table of two inserted entries
CollapseNoOpWitness ==
    /\ ~sort__need_collapse
    /\ last_op = "collapse"
    /\ entries_in = 1
    /\ Len(entries_in_array[1]) = 2
    /\ entries_collapsed = <<>>

\* C27: every entry of the output index carries the DSO (thread, symbol)
\* filter bit exactly when that filter is active and the entry does not
\* match it.
FilterBitsExact ==
    \A h \in Range(entries) \ freed :
        heap[h].filtered \cap {"DSO", "THREAD", "SYMBOL"}
            = FilterBits(heap[h], dso_filter, thread_filter, symbol_filter_str)


(***************************************************************************)
(* The order hists__output_resort leaves in the output index.              *)
(***************************************************************************)
\* the place of entry h in the index root
PlaceIn(root, h) == CHOOSE i \in 1..Len(root) : root[i] = h

\* C28: after hists__output_resort the output index is ordered by the display
\* sort comparator, greatest first, and two entries that compare equal under
\* it stand in the order in which the source index is traversed.
OutputSortStable ==
    last_op = "resort" =>
        \A i, j \in 1..Len(entries) :
            i < j =>
                LET cmp == hist_entry__sort(heap[entries[i]], heap[entries[j]])
                IN /\ cmp >= 0
                   /\ cmp = 0 => PlaceIn(ResortSource, entries[i])
                                     < PlaceIn(ResortSource, entries[j])

OutputSortStableWitness ==
    /\ last_op = "resort"
    /\ \E i, j \in 1..Len(entries) :
           /\ i < j
           /\ hist_entry__sort(heap[entries[i]], heap[entries[j]]) = 0
    /\ \E i, j \in 1..Len(entries) :
           /\ i < j
           /\ hist_entry__sort(heap[entries[i]], heap[entries[j]]) > 0
           /\ PlaceIn(ResortSource, entries[i]) > PlaceIn(ResortSource, entries[j])


\* C29: after hists__output_resort the output index holds exactly the entries
\* of the source index, nr_entries is their number, total_period the sum of
\* their periods, and nr_non_filtered_entries and total_non_filtered_period
\* are the number and the period sum of those with an empty filtered bitset.
ResortRebuildsTotals ==
    last_op = "resort" =>
        /\ Len(entries) = Len(ResortSource)
        /\ Range(entries) = Range(ResortSource)
        /\ nr_entries = Len(ResortSource)
        /\ stats.total_period = StatSum(heap, Range(ResortSource), "period")
        /\ nr_non_filtered_entries = Cardinality(Unfiltered(heap, ResortSource))
        /\ stats.total_non_filtered_period
               = StatSum(heap, Unfiltered(heap, ResortSource), "period")

\* a resort after a DSO filter pass had set the counters: one entry of the
\* two is filtered
ResortRebuildsTotalsWitness ==
    /\ last_op = "resort"
    /\ dso_filter # NULL
    /\ Len(entries) = 2
    /\ Cardinality(Unfiltered(heap, entries)) = 1
    /\ nr_entries = 2
    /\ nr_non_filtered_entries = 1
    /\ stats.total_non_filtered_period < stats.total_period


(***************************************************************************)
(* The column widths after a resort and after a filter pass.               *)
(***************************************************************************)
\* the lengths hists__new_col_len is tried with
MaxColLen == 8

HistColumns == {"SYMBOL", "COMM", "THREAD", "DSO"}

InitColumns == InitBatch

NextColumns ==
    \/ \E al \in FilterSamples : Room(MaxTableSamples) /\ Insert(al)
    \/ Collapse
    \/ CollapseNop
    \/ Resort
    \/ FilterPass

SpecColumns == InitColumns /\ [][NextColumns]_vars

\* the last operation rebuilt the widths
WidthPasses == {"resort", "filter_dso", "filter_thread", "filter_symbol"}

\* the length of the value entry he shows in column col
ValueLen(he, col) ==
    CASE col = "SYMBOL" -> IF he.sym # NULL THEN Len(SymName(he.sym)) + 4
                           ELSE unresolved_col_width + 4 + 2
      [] col = "COMM"   -> thread__comm_len(he.thread)
      [] col = "THREAD" -> thread__comm_len(he.thread) + 6
      [] col = "DSO"    -> IF he.map # NULL THEN dso__name_len(he.map) ELSE 0

\* the greatest value length of column col over the entries S, 0 for none
WidestIn(hp, S, col) ==
    IF S = {} THEN 0
    ELSE LET lens == {ValueLen(hp[h], col) : h \in S}
         IN CHOOSE m \in lens : \A l \in lens : l <= m

\* hists__new_col_len with the widths of this state
NewColLenRaises ==
    \A col \in HistColumns, len \in 0..MaxColLen :
        LET r == hists__new_col_len([col_len |-> col_len], col, len)
        IN /\ r.st.col_len[col] >= col_len[col]
           /\ r.st.col_len[col] \in {col_len[col], len}
           /\ r.ret <=> r.st.col_len[col] > col_len[col]
           /\ \A c \in HistColumns \ {col} : r.st.col_len[c] = col_len[c]

ComparatorKinds == {"cmp", "collapse", "sort"}

\* the comparator of that kind of column i, on entries a and b
ColumnResult(kind, i, a, b) ==
    CASE kind = "cmp"      -> fmt_cmp(SortList[i], a, b)
      [] kind = "collapse" -> fmt_collapse(SortList[i], a, b)
      [] kind = "sort"     -> fmt_sort(SortList[i], a, b)

\* the whole comparator of that kind
Comparator(kind, a, b) ==
    CASE kind = "cmp"      -> hist_entry__cmp(a, b)
      [] kind = "collapse" -> hist_entry__collapse(a, b)
      [] kind = "sort"     -> hist_entry__sort(a, b)

\* the columns that are not skipped and do not compare equal
Deciding(kind, a, b) ==
    {i \in 1..Len(SortList) :
        ~perf_hpp__should_skip(SortList[i]) /\ ColumnResult(kind, i, a, b) # 0}

\* the entries allocated so far
Allocated == {heap[h] : h \in DOMAIN heap}

MaxCount == 1

U32Limbs == 1..2

ToU32(n) == [i \in U32Limbs |-> IF i = 1 THEN n % LimbBase ELSE n \div LimbBase]

\* the borrow into limb i of x - y
RECURSIVE Borrow(_, _, _)
Borrow(x, y, i) ==
    IF i = 1 THEN 0
    ELSE IF x[i - 1] - y[i - 1] - Borrow(x, y, i - 1) < 0 THEN 1 ELSE 0

\* x - y in unsigned arithmetic of the width of x: the borrow out of the top
\* limb is dropped
UnsignedSub(x, y) ==
    [i \in DOMAIN x |-> (x[i] - y[i] - Borrow(x, y, i)) % LimbBase]

\* the conversion of an unsigned int to int64_t
ZeroExtend(x) == [i \in U64Limbs |-> IF i \in DOMAIN x THEN x[i] ELSE 0]

\* -1, 0 or 1 as the int64_t x is negative, zero or positive
Sign64(x) ==
    IF x[4] >= LimbBase \div 2 THEN -1
    ELSE IF \A i \in U64Limbs : x[i] = 0 THEN 0 ELSE 1

\* the bytes of an address within its cacheline of 64 bytes
cl_offset(addr) == addr % 64

offset_cmp(left, right) ==
    LET l == IF left.mem_info # NULL THEN cl_offset(left.mem_info) ELSE 0
        r == IF right.mem_info # NULL THEN cl_offset(right.mem_info) ELSE 0
    IN UnsignedSub(ToU64(r), ToU64(l))

tot_hitm_cmp(left, right) ==
    LET tot_hitm_left  == ToU32(left.stats.lcl_hitm + left.stats.rmt_hitm)
        tot_hitm_right == ToU32(right.stats.lcl_hitm + right.stats.rmt_hitm)
    IN ZeroExtend(UnsignedSub(tot_hitm_left, tot_hitm_right))

llc_miss(c2c_stats) ==
    ToU64(c2c_stats.lcl_dram + c2c_stats.rmt_dram + c2c_stats.rmt_hitm
          + c2c_stats.rmt_hit)

ld_llcmiss_cmp(left, right) ==
    UnsignedSub(llc_miss(left.stats), llc_miss(right.stats))

C2cColumns == {"offset", "tot_hitm", "ld_llcmiss"}

C2cCmp(col, left, right) ==
    CASE col = "offset"     -> offset_cmp(left, right)
      [] col = "tot_hitm"   -> tot_hitm_cmp(left, right)
      [] col = "ld_llcmiss" -> ld_llcmiss_cmp(left, right)

\* the c2c entries that are compared: their counters and data address
C2cEntries ==
    {[stats |-> [lcl_hitm |-> lh, rmt_hitm |-> rh, rmt_hit |-> 0,
                 lcl_dram |-> ld, rmt_dram |-> 0],
      mem_info |-> addr] :
        lh \in 0..MaxCount, rh \in 0..MaxCount, ld \in 0..MaxCount,
        addr \in {NULL, 8}}

\* the tree walk compares left with right, and elsewhere right with left
C2cCompare(col, left, right) ==
    /\ c2c' = [pc |-> "cmp", col |-> col, left |-> left, right |-> right,
               lr |-> C2cCmp(col, left, right), rl |-> C2cCmp(col, right, left)]
    /\ UNCHANGED <<tableVars, liveVars, d64, linkVars, colVars, top, lck,
                   min_callchain_hits>>

InitC2cCmp == InitTable /\ d64 = Idle /\ sort__need_collapse = FALSE
              /\ last_op = "off" /\ phase = "any"

NextC2cCmp ==
    \E col \in C2cColumns, left, right \in C2cEntries : C2cCompare(col, left, right)

SpecC2cCmp == InitC2cCmp /\ [][NextC2cCmp]_vars

\* C32: every column comparator is antisymmetric and reflexive in sign:
\* sign(cmp(a, b)) = -sign(cmp(b, a)), and cmp(a, a) = 0.
ComparatorsAntisymmetric ==
    c2c.pc = "cmp" =>
        /\ Sign64(c2c.lr) = -Sign64(c2c.rl)
        /\ c2c.left = c2c.right => Sign64(c2c.lr) = 0


(***************************************************************************)
(* The pairs hists__match leaves.                                          *)
(***************************************************************************)
\* the index root is in the order the walk of hists__find_entry relies on
CollapseOrdered(hp, root) ==
    \A i, j \in 1..Len(root) :
        i < j => hist_entry__collapse(hp[root[i]], hp[root[j]]) > 0

\* the entries of the other table on the pair list of leader entry a
PairsOf(a) == {e[2] : e \in {x \in pairs : x[1] = a}} \cap Range(other.root)

\* C33: after hists__match a leader entry has an entry of the other table on
\* its pair list exactly when the other table's index holds an entry at its
\* collapse key, that entry is the one on the list, no entry of the other
\* table is on the lists of two leader entries, and the lookup finds every
\* entry of an index that the insert and collapse routines built.
MatchPairsEqualKeys ==
    last_op = "match" =>
        /\ \A a \in Range(LinkRoot) :
               /\ PairsOf(a) = AtKey(heap, other.root, a)
               /\ Cardinality(PairsOf(a)) <= 1
        /\ \A b \in Range(other.root) :
               Cardinality({a \in Range(LinkRoot) : b \in PairsOf(a)}) <= 1
        /\ CollapseOrdered(heap, LinkRoot) /\ CollapseOrdered(heap, other.root)
        /\ \A a \in Range(LinkRoot) : hists__find_entry(heap, LinkRoot, a) = a
        /\ \A b \in Range(other.root) : hists__find_entry(heap, other.root, b) = b

\* one leader entry has a pair, another has none, and an entry of the other
\* table is on no list
MatchPairsEqualKeysWitness ==
    /\ last_op = "match"
    /\ \E a, l \in Range(LinkRoot) : PairsOf(a) # {} /\ PairsOf(l) = {}
    /\ \E b \in Range(other.root) : \A a \in Range(LinkRoot) : b \notin PairsOf(a)


\* C34: no entry that is still allocated has a freed entry on its pair list.
NoPairToFreedEntry ==
    \A e \in pairs : e[1] \notin freed => e[2] \notin freed


(***************************************************************************)
(* The callchain threshold of a resort pass.                               *)
(***************************************************************************)
\* samples heavy enough for half a percent of the total to be a whole hit
ChainSamples ==
    {[thread |-> 1, sym |-> k, map |-> k, level |-> ".", parent |-> NULL,
      filtered |-> {}, period |-> 200 * k, weight |-> 1, cpumode |-> "USER"] :
        k \in {1, 2}}

InitChain == InitBatch

NextChain ==
    \/ \E al \in ChainSamples : Room(MaxSamples) /\ Insert(al)
    \/ Collapse
    \/ CollapseNop
    \/ Resort

SpecChain == InitChain /\ [][NextChain]_vars

\* C35: the threshold a resort pass prunes callchains with is min_percent of
\* the total_period that the pass itself produces.
ResortThresholdOfOwnTotal ==
    last_op = "resort" =>
        min_callchain_hits
            = (stats.total_period * callchain_param_min_percent) \div 1000


(***************************************************************************)
(* The per-cpumode periods of an entry against its period.                 *)
(***************************************************************************)
CpumodePeriods(he_stat) ==
    he_stat.period_sys + he_stat.period_us
        + he_stat.period_guest_sys + he_stat.period_guest_us

\* C36: in every reachable state (after any sequence of insert, collapse and
\* decay) the four per-cpumode periods of every entry that is not freed add
\* up to at most its period.
CpumodePeriodsWithinPeriod ==
    \A h \in DOMAIN heap :
        h \notin freed => CpumodePeriods(heap[h].stat) <= heap[h].stat.period


(***************************************************************************)
(* The rotation of the two insertion buffers in the live loop.             *)
(***************************************************************************)
\* the insertion buffer that is not the current one
OtherIn(cur) == CHOOSE b \in {1, 2} : b # cur

\* C37: hists->entries_in always designates one of the two insertion buffers;
\* a rotation returns the buffer that was current and makes the other one
\* current; and the buffer that is not current, the one last handed to the
\* consumer, gains no entry until the next rotation makes it current again.
RotationHandsOver ==
    [][/\ entries_in \in {1, 2}
       /\ entries_in' \in {1, 2}
       /\ entries_in' # entries_in
              => /\ entries_in' = OtherIn(entries_in)
                 /\ cons'.pc = "drain"
                 /\ cons'.root = entries_in
       /\ \A b \in {1, 2} :
              Len(entries_in_array'[b]) > Len(entries_in_array[b])
                  => b = entries_in]_vars


(***************************************************************************)
(* perf c2c report: process_sample_event adds each sample to the cacheline *)
(* table and to the per-offset table nested in the cacheline entry.  An    *)
(* entry is [key, period]; a cacheline entry has also the c2c_he->hists    *)
(* pointer ("NULL", "live", or "freed" when it dangles), the entries of    *)
(* the table it points to, and two history fields: created counts the      *)
(* tables allocated for the entry, clean tells that no sample reaching the *)
(* entry met a failure.                                                    *)
(***************************************************************************)
MaxC2cSamples == 3

C2cSamples == {[cl |-> cl, off |-> off, period |-> p] :
                   cl \in {1, 2}, off \in {0, 1}, p \in {1, 2}}

\* the calls of process_sample_event that can fail, in program order
C2cFailures == {"none", "resolve", "mem", "dup", "add", "chain", "dup2", "zalloc",
                "init", "add2", "chain2"}

C2cFind(tbl, key) ==
    IF \E i \in 1..Len(tbl) : tbl[i].key = key
    THEN CHOOSE i \in 1..Len(tbl) : tbl[i].key = key
    ELSE NULL

\* hists__add_entry_ops(hists, ops, al, ..., sample, true): the entry of the
\* key gets the period, a new entry is allocated for a new key; the result
\* is the table and the place of the entry, NULL when the allocation fails
hists__add_entry_ops(tbl, entry, period, nomem) ==
    LET i   == C2cFind(tbl, entry.key)
        pos == Cardinality({j \in 1..Len(tbl) : tbl[j].key < entry.key})
    IN IF i # NULL THEN [tbl |-> [tbl EXCEPT ![i].period = @ + period], he |-> i]
       ELSE IF nomem THEN [tbl |-> tbl, he |-> NULL]
       ELSE [tbl |-> InsertAt(tbl, pos, [entry EXCEPT !.period = period]),
             he |-> pos + 1]

he__get_c2c_hists_fresh(c2c_he, fail) ==
    IF fail = "zalloc" THEN [he |-> [c2c_he EXCEPT !.hists = "NULL"], hists |-> "NULL"]
    ELSE IF fail = "init"
    THEN [he |-> [c2c_he EXCEPT !.hists = "freed", !.nested = <<>>, !.created = @ + 1],
          hists |-> "NULL"]
    ELSE [he |-> [c2c_he EXCEPT !.hists = "live", !.nested = <<>>, !.created = @ + 1],
          hists |-> "live"]

\* he__get_c2c_hists(he, "offset"): the table of the entry, allocated and
\* initialized when the pointer is NULL.  When c2c_hists__init fails the
\* table is freed and the pointer stays set.
he__get_c2c_hists(c2c_he, fail) ==
    IF c2c_he.hists # "NULL" THEN [he |-> c2c_he, hists |-> c2c_he.hists]
    ELSE IF fail = "zalloc" THEN [he |-> [c2c_he EXCEPT !.hists = "NULL"], hists |-> "NULL"]
    ELSE IF fail = "init"
    THEN [he |-> [c2c_he EXCEPT !.hists = "freed", !.nested = <<>>, !.created = @ + 1],
          hists |-> "NULL"]
    ELSE [he |-> [c2c_he EXCEPT !.hists = "live", !.nested = <<>>, !.created = @ + 1],
          hists |-> "live"]

\* process_sample_event on st = [hists, fault, ret, nr]; fail is the call
\* that fails, ub the outcome of a store through a dangling table pointer
process_sample_event(st, sample, fail, ub) ==
    LET cacheline == [key |-> sample.cl, period |-> 0, hists |-> "NULL",
                      nested |-> <<>>, created |-> 0, clean |-> TRUE]
        r1   == hists__add_entry_ops(st.hists, cacheline, sample.period, fail = "add")
        he   == r1.he
        got  == he__get_c2c_hists(r1.tbl[he], fail)
        r2   == hists__add_entry_ops(got.he.nested,
                                     [key |-> sample.off, period |-> 0],
                                     sample.period, fail = "add2")
    IN IF fail \in {"resolve", "mem", "dup"}
       THEN [st EXCEPT !.ret = IF fail = "resolve" THEN -1 ELSE -12]
       ELSE IF he = NULL THEN [st EXCEPT !.ret = -12]
       ELSE IF fail = "chain"
       THEN [st EXCEPT !.hists = [r1.tbl EXCEPT ![he].clean = FALSE], !.ret = -1]
       ELSE IF fail = "dup2"
       THEN [st EXCEPT !.hists = [r1.tbl EXCEPT ![he].clean = FALSE], !.ret = -12]
       ELSE IF got.hists = "NULL"
       THEN [st EXCEPT !.hists = [r1.tbl EXCEPT ![he] = [got.he EXCEPT !.clean = FALSE]],
                       !.ret = -12]
       ELSE IF got.hists = "freed" /\ ub = "fault"
       THEN [st EXCEPT !.hists = r1.tbl, !.fault = TRUE]
       ELSE IF r2.he = NULL
       THEN [st EXCEPT !.hists = [r1.tbl EXCEPT ![he] = [got.he EXCEPT !.clean = FALSE]],
                       !.ret = -12]
       ELSE [st EXCEPT
                !.hists = [r1.tbl EXCEPT
                              ![he] = [got.he EXCEPT
                                          !.nested = r2.tbl,
                                          !.clean = @ /\ fail # "chain2"]],
                !.ret = IF fail = "chain2" THEN -1 ELSE 0]

\* one sample event of the session
C2cSample(sample, fail, ub) ==
    /\ c2c.pc = "report"
    /\ ~c2c.fault
    /\ c2c.nr < MaxC2cSamples
    /\ c2c' = [process_sample_event(c2c, sample, fail, ub) EXCEPT !.nr = @ + 1]
    /\ UNCHANGED <<tableVars, liveVars, d64, linkVars, colVars, top, lck,
                   min_callchain_hits>>

InitC2cReport ==
    /\ InitHists /\ top = Idle /\ lck = Idle /\ d64 = Idle
    /\ sort__need_collapse = FALSE /\ last_op = "off" /\ phase = "any"
    /\ c2c = [pc |-> "report", hists |-> <<>>, fault |-> FALSE, ret |-> 0, nr |-> 0]

NextC2cReport ==
    \E sample \in C2cSamples, fail \in C2cFailures, ub \in {"fault", "stale"} :
        C2cSample(sample, fail, ub)

SpecC2cReport == InitC2cReport /\ [][NextC2cReport]_vars

RECURSIVE C2cPeriodSum(_)
C2cPeriodSum(tbl) ==
    IF tbl = <<>> THEN 0 ELSE Head(tbl).period + C2cPeriodSum(Tail(tbl))

\* C38: a cacheline entry gets its nested per-offset table allocated at most
\* once, and when no sample reaching the entry met an allocation or
\* callchain failure the table is there and the periods of its entries add
\* up to the period of the cacheline entry.
NestedTableOnceAndComplete ==
    c2c.pc = "report" =>
        \A i \in 1..Len(c2c.hists) :
            LET c2c_he == c2c.hists[i]
            IN /\ c2c_he.created <= 1
               /\ c2c_he.clean => /\ c2c_he.hists = "live"
                                  /\ c2c_he.created = 1
                                  /\ C2cPeriodSum(c2c_he.nested) = c2c_he.period

\* three samples of one cacheline and two offsets, none failing
NestedTableWitness ==
    /\ c2c.pc = "report"
    /\ c2c.nr = 3
    /\ \E i \in 1..Len(c2c.hists) :
           /\ c2c.hists[i].clean
           /\ Len(c2c.hists[i].nested) = 2
           /\ c2c.hists[i].period = 5
           /\ \E j \in 1..2 : c2c.hists[i].nested[j].period = 4


(***************************************************************************)
(* perf top: the sampling thread counts a sample and puts the symbol on    *)
(* the active list; the display thread walks the list, decays the counts   *)
(* and removes the symbols whose snapshot is zero.  One counter is shown   *)
(* (nr_counters = 1, hide_user_symbols, hide_kernel_symbols and zero are   *)
(* off).  The list is under active_symbols_lock, the counts are not: each  *)
(* statement that touches a count is one step, each locked region is one   *)
(* step.  top.active is the list from its head.                            *)
(***************************************************************************)
MaxTopCount == 2

TopSymbols == {1, 2}

\* event__process_sample, lines 980-982: syme->count[counter]++
TopSampleCount(syme) ==
    /\ top.pc = "live"
    /\ top.samp.pc = "idle"
    /\ top.count[syme] < MaxTopCount
    /\ top' = [top EXCEPT !.count[syme] = @ + 1,
                          !.samp = [pc |-> "insert", syme |-> syme]]
    /\ UNCHANGED <<tableVars, liveVars, d64, linkVars, colVars, c2c, lck,
                   min_callchain_hits>>

\* lines 985-988: under the lock, list_add at the head when the node is not
\* on the list
TopSampleInsert ==
    /\ top.pc = "live"
    /\ top.samp.pc = "insert"
    /\ top' = [top EXCEPT
                  !.active = IF top.samp.syme \in Range(@) THEN @
                             ELSE <<top.samp.syme>> \o @,
                  !.samp = Idle]
    /\ UNCHANGED <<tableVars, liveVars, d64, linkVars, colVars, c2c, lck,
                   min_callchain_hits>>

\* print_sym_table, lines 460-464: the first node is read under the lock;
\* list_for_each_entry_safe_from then follows the next pointers, which an
\* insertion at the head does not change
TopDisplayStart ==
    /\ top.pc = "live"
    /\ top.disp.pc = "idle"
    /\ top' = [top EXCEPT
                  !.disp = IF top.active = <<>> THEN Idle
                           ELSE [pc |-> "snap", todo |-> top.active]]
    /\ UNCHANGED <<tableVars, liveVars, d64, linkVars, colVars, c2c, lck,
                   min_callchain_hits>>

\* line 465: syme->snap_count = syme->count[snap]
TopDisplaySnap ==
    /\ top.pc = "live"
    /\ top.disp.pc = "snap"
    /\ top' = [top EXCEPT
                  !.disp = [pc |-> "act", todo |-> top.disp.todo,
                            snap_count |-> top.count[Head(top.disp.todo)]]]
    /\ UNCHANGED <<tableVars, liveVars, d64, linkVars, colVars, c2c, lck,
                   min_callchain_hits>>

\* lines 466-483: the count is decayed when the snapshot is not zero, else
\* list_remove_active_sym takes the symbol off the list
TopDisplayAct ==
    /\ top.pc = "live"
    /\ top.disp.pc = "act"
    /\ LET syme == Head(top.disp.todo)
           rest == Tail(top.disp.todo)
           next == IF rest = <<>> THEN Idle ELSE [pc |-> "snap", todo |-> rest]
       IN top' = IF top.disp.snap_count # 0
                 THEN [top EXCEPT !.count[syme] = (@ * 7) \div 8, !.disp = next]
                 ELSE [top EXCEPT !.active = SelectSeq(@, LAMBDA x : x # syme),
                                  !.disp = next]
    /\ UNCHANGED <<tableVars, liveVars, d64, linkVars, colVars, c2c, lck,
                   min_callchain_hits>>

InitTop ==
    /\ InitHists /\ c2c = Idle /\ lck = Idle /\ d64 = Idle
    /\ sort__need_collapse = FALSE /\ last_op = "off" /\ phase = "any"
    /\ top = [pc |-> "live", count |-> [syme \in TopSymbols |-> 0], active |-> <<>>,
              samp |-> Idle, disp |-> Idle]

NextTop ==
    \/ \E syme \in TopSymbols : TopSampleCount(syme)
    \/ TopSampleInsert
    \/ TopDisplayStart
    \/ TopDisplaySnap
    \/ TopDisplayAct

SpecTop == InitTop /\ [][NextTop]_vars

\* C39: whenever the sampling thread and the display thread are both between
\* operations, every symbol whose count for the displayed counter is not
\* zero is on the active list.
CountedSymbolsActive ==
    (top.pc = "live" /\ top.samp.pc = "idle" /\ top.disp.pc = "idle")
        => \A syme \in TopSymbols :
               top.count[syme] # 0 => syme \in Range(top.active)


(***************************************************************************)
(* perf lock: the state machine prof_lock_ops keeps for one lock address.  *)
(* lck.st is the lock_stat of the address, lck.nr the number of events     *)
(* handled.  wait_time_min starts at the largest value of the field; the   *)
(* model takes a value above every hold time it can produce.               *)
(***************************************************************************)
MaxLockEvents == 4

MaxTimestamp == 2

ULLONG_MAX == MaxTimestamp + 1

Timestamps == 0..MaxTimestamp

\* lock_stat_findnew: the zalloc'ed lock_stat of a new address
lock_stat_findnew ==
    [state |-> "UNLOCKED", prev_event_time |-> 0, nr_acquired |-> 0,
     nr_acquire |-> 0, nr_contended |-> 0, nr_release |-> 0,
     wait_time_total |-> 0, wait_time_min |-> ULLONG_MAX, wait_time_max |-> 0]

LockEvent(st) ==
    /\ lck.pc = "prof"
    /\ lck.nr < MaxLockEvents
    /\ lck' = [lck EXCEPT !.st = st, !.nr = @ + 1]
    /\ UNCHANGED <<tableVars, liveVars, d64, linkVars, colVars, c2c, top,
                   min_callchain_hits>>

prof_lock_acquire_event(timestamp) ==
    LockEvent([lck.st EXCEPT !.prev_event_time = timestamp])

prof_lock_acquired_event(timestamp) ==
    LockEvent(IF lck.st.state = "UNLOCKED"
              THEN [lck.st EXCEPT !.state = "LOCKED", !.nr_acquired = @ + 1,
                                  !.prev_event_time = timestamp]
              ELSE [lck.st EXCEPT !.prev_event_time = timestamp])

prof_lock_contended_event(timestamp) ==
    LockEvent(IF lck.st.state = "LOCKED"
              THEN [lck.st EXCEPT !.nr_contended = @ + 1,
                                  !.prev_event_time = timestamp]
              ELSE [lck.st EXCEPT !.prev_event_time = timestamp])

\* a release stamped before the previous event unlocks and is not counted
prof_lock_release_event(timestamp) ==
    LET st        == lck.st
        hold_time == timestamp - st.prev_event_time
    IN LockEvent(
           IF st.state = "UNLOCKED" THEN [st EXCEPT !.prev_event_time = timestamp]
           ELSE IF timestamp < st.prev_event_time
           THEN [st EXCEPT !.state = "UNLOCKED", !.prev_event_time = timestamp]
           ELSE [st EXCEPT
                    !.state = "UNLOCKED",
                    !.wait_time_min = IF @ > hold_time THEN hold_time ELSE @,
                    !.wait_time_max = IF @ < hold_time THEN hold_time ELSE @,
                    !.wait_time_total = @ + hold_time,
                    !.nr_release = @ + 1,
                    !.prev_event_time = timestamp])

InitLock ==
    /\ InitHists /\ c2c = Idle /\ top = Idle /\ d64 = Idle
    /\ sort__need_collapse = FALSE /\ last_op = "off" /\ phase = "any"
    /\ lck = [pc |-> "prof", st |-> lock_stat_findnew, nr |-> 0]

NextLock ==
    \E timestamp \in Timestamps :
        \/ prof_lock_acquire_event(timestamp)
        \/ prof_lock_acquired_event(timestamp)
        \/ prof_lock_contended_event(timestamp)
        \/ prof_lock_release_event(timestamp)

SpecLock == InitLock /\ [][NextLock]_vars

\* LOCKED with one acquisition not released, UNLOCKED with none, and the
\* shortest wait not above the longest once a release was counted
LockCountersAgree(st) ==
    /\ st.state = "LOCKED" <=> st.nr_acquired - st.nr_release = 1
    /\ st.state = "UNLOCKED" <=> st.nr_acquired = st.nr_release
    /\ st.nr_release > 0 => st.wait_time_min <= st.wait_time_max

\* C40: for every sequence of acquire, acquired, contended and release events
\* with arbitrary timestamps the lock is LOCKED exactly when nr_acquired -
\* nr_release = 1 and UNLOCKED exactly when they are equal, wait_time_min <=
\* wait_time_max once a release was counted, and nr_contended grows only
\* while the lock is LOCKED.
LockStateMatchesCounters ==
    [][(lck.pc = "prof" /\ lck'.pc = "prof")
          => /\ LockCountersAgree(lck.st)
             /\ LockCountersAgree(lck'.st)
             /\ lck'.st.nr_contended > lck.st.nr_contended
                    => lck.st.state = "LOCKED"]_vars

=============================================================================
